---- MODULE Spec2Model ----
(***************************************************************************)
(* State-machine model of the client-side synchronisation layer:           *)
(*   - useRateLimitRetry      (src/src/hooks/useRateLimitRetry.ts)          *)
(*   - useAutoRefreshCountdown (src/src/hooks/useAutoRefreshCountdown.ts)   *)
(*   - AssetDetailPage wiring  (src/unnamed/part_002)                       *)
(*                                                                         *)
(* React is modelled as follows.  A hook's useState cells hold the latest  *)
(* value written by a setter.  A render commits the component: every       *)
(* useEffect whose dependency values differ from those of the previous     *)
(* commit first runs the previous closure's cleanup and then its body,     *)
(* with the values of the committing render captured in the closure.       *)
(* useRef cells are plain mutable cells.  setInterval/setTimeout handles   *)
(* are members of a timer set until cleared.  Time is abstracted: a        *)
(* one-second interval tick is one step; a re-render requested by a        *)
(* state update and a zero-delay timeout are due before the next           *)
(* one-second tick.                                                        *)
(***************************************************************************)
EXTENDS Integers, Sequences, FiniteSets, TLC

(* ------------------------------ bounds --------------------------------- *)
\* Server-reported wait times are drawn from 0..MaxWaitTenths tenths of a second.
MaxWaitTenths == 50
\* Number of distinct callback closures a parent can register.
MaxHandlers == 2

\* Rate-limit responses to the page report no wait or MaxViewWaitTenths tenths of a second.
MaxViewWaitTenths == 10
\* Auto-refresh ticks followed per countdown in SpecPage (SpecView follows all).
MaxAutoTicks == 3

\* Requests of one kind that may be in flight at once.
MaxInFlight == 1

(* ------------------------- program constants --------------------------- *)
DEFAULT_RETRY_DELAY_SECONDS == 60
RETRY_DELAY == 5
AUTO_REFRESH_INTERVAL == 3 * 60 * 1000

VARIABLES
  \* ---- useRateLimitRetry
  isRateLimited,        \* useState(false)
  rlSecondsRemaining,   \* useState(0)
  rlIntervalRef,        \* intervalRef.current; 0 models null
  isCountingDown,       \* isCountingDown.current
  onRetryRef,           \* onRetryRef.current
  rlCommitted,          \* isRateLimited as captured by the last committed countdown effect
  rlTimers,             \* ids of the setInterval timers that are live
  rlTimeouts,           \* pending setTimeout(..., 0) closures, in due order
  rlMounted,
  \* ---- observation of the retry controller
  rlWait,               \* the argument of the last startRetryCountdown
  rlTicks,              \* interval ticks since the last startRetryCountdown
  rlFired,              \* retry callbacks run since the last startRetryCountdown
  rlClean,              \* the last start was from Idle and nothing but ticks followed
  rlHandlerAtStart,     \* onRetryRef.current when the countdown was started
  rlStaleFire,          \* some retry ran a handler other than onRetryRef.current
  rlCancelled,          \* cancel/reset ran and no start has completed since
  \* ---- useAutoRefreshCountdown
  arSecondsRemaining,   \* useState(AUTO_REFRESH_INTERVAL / 1000)
  isRefreshing,         \* useState(false)
  arIntervalRef,        \* intervalRef.current; 0 models null
  onRefreshRef,         \* onRefreshRef.current
  enabled,              \* props of the last committed render
  isPaused,
  isLoading,
  arCommittedRefreshing,\* isRefreshing as seen by the last committed render
  arTimers,             \* live intervals: [id, isLoading, onRefresh] (the closure)
  arMounted,
  \* ---- observation of the auto-refresh scheduler
  arFired,              \* refresh callbacks run since the counter was last reset
  arStaleFire,          \* some refresh ran a handler other than onRefreshRef.current
  \* ---- AssetDetailPage
  historyLoading,       \* useState(true)
  detailsLoading,       \* useState(true)
  pageRefreshing,       \* the page's own isRefreshing, useState(false)
  isManualRefresh,      \* useState(false)
  hasHistory,           \* historyData.length > 0
  retryCountdown,       \* useState<number | null>(null): <<>> is null, <<n>> is n
  refreshKeyBumped,     \* refreshKey was incremented since the last commit
  autoRefreshKeyBumped, \* autoRefreshKey was incremented since the last commit
  historyInFlight,      \* fetchAssetHistory promises not settled yet
  detailsInFlight,      \* fetchAssetDetails promises not settled yet
  refreshInFlight,      \* fetchAssetRefresh promises not settled yet
  retryTimer,           \* the fixed-delay effect's setTimeout is pending
  cmManual,             \* isManualRefresh at the last commit
  cmRetryCountdown,     \* retryCountdown at the last commit
  cmHasHistory,         \* historyData non-empty at the last commit (seen by closures)
  historyError,         \* useState<string | null>(null): which message, "none" is null
  detailsError,         \* useState<string | null>(null): which message, "none" is null
  \* ---- a rate-limit response on its way to the retry controller
  serverWait,           \* what the last 429 response reported: "unset", <<>> (nothing), <<w>>
  \* ---- fetchWithRetry (one call)
  fwPc,                 \* "off", "call" (about to await fetchFn), "sleep", "returned", "raised"
  fwAttempt,            \* the loop variable attempt
  fwResults,            \* what each fetchFn() call so far gave, in order
  fwDelayMs,            \* the sleeps so far, in milliseconds each
  fwRaised,             \* the value thrown to the caller, <<>> if none
  \* ---- the candle series of the asset page
  historyData,          \* useState<PricePoint[]>([]), followed in SpecMerge
  mergeBefore,          \* historyData before the last lightweight response
  mergeIncoming,        \* response.candles of the last lightweight response
  \* ---- useAssets (home page)
  rateLimitTriggered,   \* useState(false)
  hmLoading,            \* loading, useState(true)
  hmInFlight,           \* fetchAllAssets calls not settled yet
  cmTriggered,          \* rateLimitTriggered at the last commit
  hmEffects,            \* effects of the current commit still to run: "none", "start", "reset"
  hmMounted,
  hmManualSince,        \* observation: the user refreshed since the countdown was last started
  \* ---- one call of a pure function (last names the function once it has run)
  fnArgs,               \* the arguments of the call
  fnResult,             \* what the call returned
  \* ---- chat history logger plugin
  messageData,          \* the Map: id and parts of its entries in insertion order (the role only labels the line written)
  loggedMessages,       \* the Set of message ids
  stateFileExists,      \* .opencode/chat-history-enabled is there
  idleHandlers,         \* the session.idle handlers that are suspended at an await
  logFile,              \* message ids in today's file, in order; <<>> with logFileExists is the header alone
  logFileExists,
  appendCalls,          \* observation: the message id of every appendFile that completed
  \* ---- the asset page's candle interval
  candleInterval,       \* useState('1h')
  intervalLoading,      \* historyLoading, which disables the interval buttons
  autoRefreshKey,       \* useState(0)
  requestsInFlight,     \* history and refresh requests not settled yet, each with its interval
  \* ---- last operation performed
  last

rlVars == <<isRateLimited, rlSecondsRemaining, rlIntervalRef, isCountingDown,
            onRetryRef, rlCommitted, rlTimers, rlTimeouts, rlMounted>>
rlObs == <<rlWait, rlTicks, rlFired, rlClean, rlHandlerAtStart, rlStaleFire,
           rlCancelled>>
arVars == <<arSecondsRemaining, isRefreshing, arIntervalRef, onRefreshRef, enabled,
            isPaused, isLoading, arCommittedRefreshing, arTimers, arMounted>>
arObs == <<arFired, arStaleFire>>
pgVars == <<historyLoading, detailsLoading, pageRefreshing, isManualRefresh, hasHistory,
            retryCountdown, refreshKeyBumped, autoRefreshKeyBumped, historyInFlight,
            detailsInFlight, refreshInFlight, retryTimer, cmManual, cmRetryCountdown,
            cmHasHistory, historyError, detailsError>>
fwVars == <<fwPc, fwAttempt, fwResults, fwDelayMs, fwRaised>>
mgVars == <<historyData, mergeBefore, mergeIncoming>>
hmVars == <<rateLimitTriggered, hmLoading, hmInFlight, cmTriggered, hmEffects, hmMounted,
           hmManualSince>>
fnVars == <<fnArgs, fnResult>>
lgVars == <<messageData, loggedMessages, stateFileExists, idleHandlers, logFile,
            logFileExists, appendCalls>>
ivVars == <<candleInterval, intervalLoading, autoRefreshKey, requestsInFlight>>
extVars == <<serverWait, fwVars, mgVars, hmVars, fnVars, lgVars, ivVars>>
vars == <<rlVars, rlObs, arVars, arObs, pgVars, extVars, last>>

Handlers == 1..MaxHandlers
\* waitTimeSeconds?: <<>> is undefined, <<w>> is w tenths of a second.
Waits == {<<>>} \cup {<<w>> : w \in 0..MaxWaitTenths}

(* ------------------------------ helpers -------------------------------- *)
\* Math.ceil of a value given in tenths.
MathCeil(tenths) == -((-tenths) \div 10)

\* Handle returned by window.setInterval: a fresh id, distinct from the live ones.
NewTimerId(live) ==
  CHOOSE i \in 1..(Cardinality(live) + 1) : i \notin live /\ \A j \in 1..(i - 1) : j \in live

\* clearInterval(ref): a no-op on a handle that is not live.
ClearInterval(live, ref) == live \ {ref}

(* ======================== useRateLimitRetry ============================ *)

\* Mutant: the one-second safety buffer is left out.
TotalDelay_NoBuffer(w) ==
  LET delayTenths == IF w = <<>> THEN DEFAULT_RETRY_DELAY_SECONDS * 10 ELSE w[1]
  IN  MathCeil(delayTenths)

\* const totalDelay = Math.ceil(waitTimeSeconds ?? defaultRetryDelaySeconds) + 1
TotalDelay(w) ==
  LET delayTenths == IF w = <<>> THEN DEFAULT_RETRY_DELAY_SECONDS * 10 ELSE w[1]
  IN  MathCeil(delayTenths) + 1

RLInit(mounted) ==
  /\ isRateLimited = FALSE
  /\ rlSecondsRemaining = 0
  /\ rlIntervalRef = 0
  /\ isCountingDown = FALSE
  /\ onRetryRef = 1
  /\ rlCommitted = FALSE
  /\ rlTimers = {}
  /\ rlTimeouts = <<>>
  /\ rlMounted = mounted
  /\ rlWait = <<>>
  /\ rlTicks = 0
  /\ rlFired = 0
  /\ rlClean = FALSE
  /\ rlHandlerAtStart = 1
  /\ rlStaleFire = FALSE
  /\ rlCancelled = FALSE

\* The controller is Idle: not rate limited, committed, no timer, nothing deferred.
RLIdle ==
  /\ ~isRateLimited
  /\ ~rlCommitted
  /\ rlTimers = {}
  /\ rlTimeouts = <<>>

\* startRetryCountdown(waitTimeSeconds?)
StartRetryCountdown(w) ==
  /\ rlMounted
  /\ rlTimers' = IF rlIntervalRef # 0 THEN ClearInterval(rlTimers, rlIntervalRef) ELSE rlTimers
  /\ rlIntervalRef' = 0
  /\ isCountingDown' = FALSE
  /\ rlSecondsRemaining' = TotalDelay(w)
  /\ isRateLimited' = TRUE
  /\ UNCHANGED <<onRetryRef, rlCommitted, rlTimeouts, rlMounted>>

\* Mutant: the countdown value is left as it is when the rate limit is cleared.
ClearRateLimit_KeepSeconds ==
  /\ rlMounted
  /\ isCountingDown' = FALSE
  /\ isRateLimited' = FALSE
  /\ rlTimers' = IF rlIntervalRef # 0 THEN ClearInterval(rlTimers, rlIntervalRef) ELSE rlTimers
  /\ rlIntervalRef' = 0
  /\ UNCHANGED <<rlSecondsRemaining, onRetryRef, rlCommitted, rlTimeouts, rlMounted>>

\* The body shared by cancelRetry and resetRateLimit.
ClearRateLimit ==
  /\ rlMounted
  /\ isCountingDown' = FALSE
  /\ isRateLimited' = FALSE
  /\ rlSecondsRemaining' = 0
  /\ rlTimers' = IF rlIntervalRef # 0 THEN ClearInterval(rlTimers, rlIntervalRef) ELSE rlTimers
  /\ rlIntervalRef' = 0
  /\ UNCHANGED <<onRetryRef, rlCommitted, rlTimeouts, rlMounted>>

CancelRetry == ClearRateLimit

ResetRateLimit == ClearRateLimit

\* The interval callback of the countdown effect: setSecondsRemaining(prev => ...).
\* t is the live interval that fires.
CountdownTick(t) ==
  /\ t \in rlTimers
  /\ rlTimeouts = <<>>
  /\ LET next == rlSecondsRemaining - 1 IN
     IF next <= 0
     THEN /\ isCountingDown' = FALSE
          /\ isRateLimited' = FALSE
          /\ rlTimers' = IF rlIntervalRef # 0
                          THEN ClearInterval(rlTimers, rlIntervalRef) ELSE rlTimers
          /\ rlIntervalRef' = 0
          /\ rlTimeouts' = Append(rlTimeouts, onRetryRef)
          /\ rlSecondsRemaining' = 0
     ELSE /\ rlSecondsRemaining' = next
          /\ UNCHANGED <<isCountingDown, isRateLimited, rlTimers, rlIntervalRef,
                         rlTimeouts>>
  /\ UNCHANGED <<onRetryRef, rlCommitted, rlMounted>>

\* Mutant: the deferred retry runs the handler captured when it was scheduled.
RetryHandlerAtFire_Captured(atSchedule, refNow) == atSchedule

\* The handler a deferred retry runs: it reads onRetryRef.current when it fires,
\* not the value the ref had when the timeout was scheduled.
RetryHandlerAtFire(atSchedule, refNow) == refNow

\* setTimeout(() => { onRetryRef.current(); }, 0) comes due.
DeferredRetry ==
  /\ rlTimeouts # <<>>
  /\ rlTimeouts' = Tail(rlTimeouts)
  /\ UNCHANGED <<isRateLimited, rlSecondsRemaining, rlIntervalRef, isCountingDown,
                 onRetryRef, rlCommitted, rlTimers, rlMounted>>

\* Cleanup of the countdown effect's previous closure (which captured rlCommitted),
\* followed by the effect body for the committing render.
CountdownEffect ==
  LET cleaned   == ~rlCommitted /\ rlIntervalRef # 0
      timers1   == IF cleaned THEN ClearInterval(rlTimers, rlIntervalRef) ELSE rlTimers
      ref1      == IF cleaned THEN 0 ELSE rlIntervalRef
      counting1 == IF cleaned THEN FALSE ELSE isCountingDown
      starts    == isRateLimited /\ rlSecondsRemaining > 0 /\ ~counting1
      id        == NewTimerId(timers1)
  IN  /\ rlTimers' = IF starts THEN timers1 \cup {id} ELSE timers1
      /\ rlIntervalRef' = IF starts THEN id ELSE ref1
      /\ isCountingDown' = IF starts THEN TRUE ELSE counting1

\* A render of the owning component with onRetry = h: the ref-update effect
\* runs, and the countdown effect runs when isRateLimited changed.
RLCommit(h) ==
  /\ rlMounted
  /\ onRetryRef' = h
  /\ IF isRateLimited # rlCommitted
     THEN CountdownEffect
     ELSE UNCHANGED <<rlTimers, rlIntervalRef, isCountingDown>>
  /\ rlCommitted' = isRateLimited
  /\ UNCHANGED <<isRateLimited, rlSecondsRemaining, rlTimeouts, rlMounted>>

\* Unmount: the countdown effect's cleanup, then the unmount effect's cleanup.
RLUnmount ==
  /\ rlMounted
  /\ rlMounted' = FALSE
  /\ rlTimers' = IF rlIntervalRef # 0 THEN ClearInterval(rlTimers, rlIntervalRef) ELSE rlTimers
  /\ rlIntervalRef' = 0
  /\ isCountingDown' = IF ~rlCommitted /\ rlIntervalRef # 0 THEN FALSE ELSE isCountingDown
  /\ UNCHANGED <<isRateLimited, rlSecondsRemaining, onRetryRef, rlCommitted, rlTimeouts>>

(* ===================== useAutoRefreshCountdown ========================= *)

\* AUTO_REFRESH_INTERVAL / 1000
IntervalSeconds == AUTO_REFRESH_INTERVAL \div 1000

\* Mutant: the effect forgets to clear the interval it replaces.
MainCountdownEffect_NoClear(e, p, l, h) ==
  LET id == NewTimerId({t.id : t \in arTimers})
  IN  IF ~e \/ p
      THEN <<arTimers, 0>>
      ELSE <<arTimers \cup {[id |-> id, isLoading |-> l, onRefresh |-> h]}, id>>

\* Mutant: the effect ignores the pause gate.
MainCountdownEffect_IgnorePause(e, p, l, h) ==
  LET timers1 == IF arIntervalRef # 0
                 THEN {t \in arTimers : t.id # arIntervalRef} ELSE arTimers
      id      == NewTimerId({t.id : t \in timers1})
  IN  IF ~e
      THEN <<timers1, 0>>
      ELSE <<timers1 \cup {[id |-> id, isLoading |-> l, onRefresh |-> h]}, id>>

\* The main countdown effect for a render with props (e, p, l) and onRefresh = h:
\* the previous closure's cleanup, the clear at the top of the body, and the
\* new interval unless disabled or paused.  Yields <<timers, intervalRef>>.
MainCountdownEffect(e, p, l, h) ==
  LET timers1 == IF arIntervalRef # 0
                 THEN {t \in arTimers : t.id # arIntervalRef} ELSE arTimers
      id      == NewTimerId({t.id : t \in timers1})
  IN  IF ~e \/ p
      THEN <<timers1, 0>>
      ELSE <<timers1 \cup {[id |-> id, isLoading |-> l, onRefresh |-> h]}, id>>

\* Mutant: the loading-complete reset never runs.
ResetOnLoadingComplete_Never(l) == FALSE

\* The reset-on-loading-complete effect's condition for a render with isLoading = l.
ResetOnLoadingComplete(l) == ~l /\ isRefreshing

ARInit(mounted, e, p, l) ==
  /\ arSecondsRemaining = IntervalSeconds
  /\ isRefreshing = FALSE
  /\ onRefreshRef = 1
  /\ enabled = e
  /\ isPaused = p
  /\ isLoading = l
  /\ arCommittedRefreshing = FALSE
  /\ arTimers = IF ~mounted \/ ~e \/ p
                THEN {} ELSE {[id |-> 1, isLoading |-> l, onRefresh |-> 1]}
  /\ arIntervalRef = IF ~mounted \/ ~e \/ p THEN 0 ELSE 1
  /\ arMounted = mounted
  /\ arFired = 0
  /\ arStaleFire = FALSE

\* Whether the commit of a render with isLoading = l runs the reset effect's
\* resetCountdown(): its dependencies changed and loading is over while refreshing.
ResetEffectRuns(l) ==
  /\ <<l, isRefreshing>> # <<isLoading, arCommittedRefreshing>>
  /\ ResetOnLoadingComplete(l)

\* A state update has requested a re-render that is not committed yet.
ARRenderPending == isRefreshing # arCommittedRefreshing

\* Mutant: resetCountdown restores the counter but leaves isRefreshing set.
ResetCountdown_KeepRefreshing ==
  /\ arMounted
  /\ arSecondsRemaining' = IntervalSeconds
  /\ UNCHANGED <<isRefreshing, arIntervalRef, onRefreshRef, enabled, isPaused, isLoading,
                 arCommittedRefreshing, arTimers, arMounted>>

\* resetCountdown()
ResetCountdown ==
  /\ arMounted
  /\ arSecondsRemaining' = IntervalSeconds
  /\ isRefreshing' = FALSE
  /\ UNCHANGED <<arIntervalRef, onRefreshRef, enabled, isPaused, isLoading,
                 arCommittedRefreshing, arTimers, arMounted>>

\* The handler a tick runs: onRefreshRef.current at the tick, not the onRefresh
\* of the render that created the interval.
RefreshHandlerAtFire(atEffect, refNow) == refNow

\* Mutant: the tick does not look at isLoading.
TickRefreshes_IgnoreLoading(t) == arSecondsRemaining <= 1

\* Whether the tick of interval t invokes the refresh callback.
TickRefreshes(t) == arSecondsRemaining <= 1 /\ ~t.isLoading

\* The interval callback: setSecondsRemaining(prev => ...).
AutoRefreshTick(t) ==
  /\ t \in arTimers
  /\ ~ARRenderPending
  /\ arSecondsRemaining' = IF arSecondsRemaining <= 1 THEN 0 ELSE arSecondsRemaining - 1
  /\ isRefreshing' = (isRefreshing \/ TickRefreshes(t))
  /\ UNCHANGED <<arIntervalRef, onRefreshRef, enabled, isPaused, isLoading,
                 arCommittedRefreshing, arTimers, arMounted>>

\* A render of the owning component with props (e, p, l) and onRefresh = h.
ARCommit(e, p, l, h) ==
  /\ arMounted
  /\ onRefreshRef' = h
  /\ IF <<e, p, l>> # <<enabled, isPaused, isLoading>>
     THEN /\ arTimers' = MainCountdownEffect(e, p, l, h)[1]
          /\ arIntervalRef' = MainCountdownEffect(e, p, l, h)[2]
     ELSE UNCHANGED <<arTimers, arIntervalRef>>
  /\ IF ResetEffectRuns(l)
     THEN /\ arSecondsRemaining' = IntervalSeconds
          /\ isRefreshing' = FALSE
     ELSE UNCHANGED <<arSecondsRemaining, isRefreshing>>
  /\ enabled' = e
  /\ isPaused' = p
  /\ isLoading' = l
  /\ arCommittedRefreshing' = isRefreshing
  /\ UNCHANGED arMounted

\* Unmount: the main countdown effect's cleanup.
ARUnmount ==
  /\ arMounted
  /\ arMounted' = FALSE
  /\ arTimers' = IF arIntervalRef # 0
                 THEN {t \in arTimers : t.id # arIntervalRef} ELSE arTimers
  /\ arIntervalRef' = 0
  /\ UNCHANGED <<arSecondsRemaining, isRefreshing, onRefreshRef, enabled, isPaused,
                 isLoading, arCommittedRefreshing>>

(* ========================== AssetDetailPage ============================ *)

\* The page state after the first commit (mounted), or of a page that is not there.
PageInit(mounted) ==
  /\ historyLoading = mounted
  /\ detailsLoading = mounted
  /\ pageRefreshing = FALSE
  /\ isManualRefresh = FALSE
  /\ hasHistory = FALSE
  /\ retryCountdown = <<>>
  /\ refreshKeyBumped = FALSE
  /\ autoRefreshKeyBumped = FALSE
  /\ historyInFlight = IF mounted THEN 1 ELSE 0
  /\ detailsInFlight = IF mounted THEN 1 ELSE 0
  /\ refreshInFlight = 0
  /\ retryTimer = FALSE
  /\ cmManual = FALSE
  /\ cmRetryCountdown = <<>>
  /\ cmHasHistory = FALSE
  /\ historyError = "none"
  /\ detailsError = "none"

\* No rate-limit response has been handed off yet.
HandoffInit == serverWait = "unset"

\* No fetchWithRetry call is being followed.
FetchOff ==
  /\ fwPc = "off"
  /\ fwAttempt = 0
  /\ fwResults = <<>>
  /\ fwDelayMs = <<>>
  /\ fwRaised = <<>>

\* The candle series is not followed.
MergeOff ==
  /\ historyData = <<>>
  /\ mergeBefore = <<>>
  /\ mergeIncoming = <<>>

\* The home page state after the first commit, or of a home page that is not there.
HomeInit(mounted) ==
  /\ rateLimitTriggered = FALSE
  /\ hmLoading = mounted
  /\ hmInFlight = IF mounted THEN 1 ELSE 0
  /\ cmTriggered = FALSE
  /\ hmEffects = "none"
  /\ hmMounted = mounted
  /\ hmManualSince = FALSE

\* No pure function call is followed.
FnOff ==
  /\ fnArgs = <<>>
  /\ fnResult = <<>>

\* The logger plugin is not loaded.
LoggerOff ==
  /\ messageData = <<>>
  /\ loggedMessages = {}
  /\ stateFileExists = FALSE
  /\ idleHandlers = <<>>
  /\ logFile = <<>>
  /\ logFileExists = FALSE
  /\ appendCalls = <<>>

\* No interval selection is followed.
IntervalOff ==
  /\ candleInterval = "1h"
  /\ intervalLoading = FALSE
  /\ autoRefreshKey = 0
  /\ requestsInFlight = <<>>

ExtOff ==
  /\ HandoffInit /\ FetchOff /\ MergeOff /\ HomeInit(FALSE) /\ FnOff /\ LoggerOff
  /\ IntervalOff

(* --------------- the retry controller on its own ----------------------- *)
arAll == <<arVars, arObs, pgVars, extVars>>
rlAll == <<rlVars, rlObs, pgVars, extVars>>

RetryStart ==
  /\ \E w \in Waits :
        /\ StartRetryCountdown(w)
        /\ rlWait' = w
  /\ rlTicks' = 0
  /\ rlFired' = 0
  /\ rlClean' = RLIdle
  /\ rlHandlerAtStart' = onRetryRef
  /\ UNCHANGED <<rlStaleFire, rlCancelled>>
  /\ last' = "start"
  /\ UNCHANGED arAll
RetryCancel ==
  /\ CancelRetry
  /\ rlClean' = FALSE
  /\ rlCancelled' = TRUE
  /\ UNCHANGED <<rlWait, rlTicks, rlFired, rlHandlerAtStart, rlStaleFire>>
  /\ last' = "cancel"
  /\ UNCHANGED arAll
RetryReset ==
  /\ ResetRateLimit
  /\ rlClean' = FALSE
  /\ rlCancelled' = TRUE
  /\ UNCHANGED <<rlWait, rlTicks, rlFired, rlHandlerAtStart, rlStaleFire>>
  /\ last' = "reset"
  /\ UNCHANGED arAll
RetryTick ==
  /\ \E t \in rlTimers : CountdownTick(t)
  /\ rlTicks' = rlTicks + 1
  /\ rlCancelled' = (rlCancelled /\ isRateLimited')
  /\ UNCHANGED <<rlWait, rlFired, rlClean, rlHandlerAtStart, rlStaleFire>>
  /\ last' = "tick"
  /\ UNCHANGED arAll
RetryDeferred ==
  /\ DeferredRetry
  /\ rlFired' = rlFired + 1
  /\ rlStaleFire' = (rlStaleFire \/ RetryHandlerAtFire(Head(rlTimeouts), onRetryRef) # onRetryRef)
  /\ UNCHANGED <<rlWait, rlTicks, rlClean, rlHandlerAtStart, rlCancelled>>
  /\ last' = "retry"
  /\ UNCHANGED arAll
RetryRender ==
  /\ \E h \in Handlers : RLCommit(h)
  /\ UNCHANGED rlObs
  /\ last' = "render"
  /\ UNCHANGED arAll
RetryUnmount ==
  /\ RLUnmount
  /\ rlClean' = FALSE
  /\ UNCHANGED <<rlWait, rlTicks, rlFired, rlHandlerAtStart, rlStaleFire, rlCancelled>>
  /\ last' = "unmount"
  /\ UNCHANGED arAll

\* A component that uses the retry hook alone.
InitRetry ==
  /\ RLInit(TRUE)
  /\ ARInit(FALSE, FALSE, FALSE, FALSE)
  /\ PageInit(FALSE)
  /\ ExtOff
  /\ last = "init"

NextRetry ==
  \/ RetryStart
  \/ RetryCancel
  \/ RetryReset
  \/ RetryTick
  \/ RetryDeferred
  \/ RetryRender
  \/ RetryUnmount

SpecRetry == InitRetry /\ [][NextRetry]_vars

(* ------------- the auto-refresh scheduler on its own ------------------- *)
\* The operation a render amounts to for the timer.
RenderKind(e, p) ==
  IF (enabled /\ ~isPaused) /\ ~(e /\ ~p) THEN "toggleOff"
  ELSE IF ~(enabled /\ ~isPaused) /\ (e /\ ~p) THEN "toggleOn"
  ELSE "arRender"

RefreshTick ==
  /\ \E t \in arTimers :
        /\ AutoRefreshTick(t)
        /\ arFired' = arFired + (IF TickRefreshes(t) THEN 1 ELSE 0)
        /\ arStaleFire' =
             (arStaleFire \/ (/\ TickRefreshes(t)
                              /\ RefreshHandlerAtFire(t.onRefresh, onRefreshRef) # onRefreshRef))
  /\ last' = "arTick"
  /\ UNCHANGED rlAll
RefreshReset ==
  /\ ResetCountdown
  /\ arFired' = 0
  /\ UNCHANGED arStaleFire
  /\ last' = "resetCountdown"
  /\ UNCHANGED rlAll
RefreshRender ==
  /\ \E e \in BOOLEAN, p \in BOOLEAN, l \in BOOLEAN, h \in Handlers :
        /\ ARCommit(e, p, l, h)
        /\ arFired' = IF ResetEffectRuns(l) THEN 0 ELSE arFired
        /\ last' = RenderKind(e, p)
  /\ UNCHANGED arStaleFire
  /\ UNCHANGED rlAll
RefreshUnmount ==
  /\ ARUnmount
  /\ UNCHANGED arObs
  /\ last' = "arUnmount"
  /\ UNCHANGED rlAll

\* A component that uses the auto-refresh hook alone, mounted with any props.
InitRefresh ==
  /\ RLInit(FALSE)
  /\ \E e \in BOOLEAN, p \in BOOLEAN, l \in BOOLEAN : ARInit(TRUE, e, p, l)
  /\ PageInit(FALSE)
  /\ ExtOff
  /\ last = "init"

NextRefresh ==
  \/ RefreshTick
  \/ RefreshReset
  \/ RefreshRender
  \/ RefreshUnmount

SpecRefresh == InitRefresh /\ [][NextRefresh]_vars

(* ------------------- the asset detail page as a whole ------------------ *)
\* const isLoading = historyLoading || detailsLoading || isRefreshing
PageLoading == historyLoading \/ detailsLoading \/ pageRefreshing

\* How a request settles: fulfilled, or rejected with a classified error.
\* A rate-limit response carries a wait (retry_after / Retry-After) or none.
ViewWaits == {<<>>, <<MaxViewWaitTenths>>}
Outcomes ==
  {[kind |-> k, wait |-> <<>>] : k \in {"ok", "notFound", "emptyHistory", "other"}}
    \cup {[kind |-> "rateLimit", wait |-> w] : w \in ViewWaits}

\* handleResponseError: waitTime = errorData.retry_after
\*   || parseFloat(response.headers.get('Retry-After') || '0') || 0,
\* the waitTime of the RateLimitError it throws.  sw is what the server sent.
ResponseWaitTime(sw) == IF sw = <<>> \/ sw = <<0>> THEN <<0>> ELSE sw

\* The catch blocks: err instanceof RateLimitError ? err.waitTime : undefined.
\* fetchWithRetry rethrows the RateLimitError object itself.
CaughtWaitTime(isRateLimitErrorInstance, waitTime) ==
  IF isRateLimitErrorInstance THEN waitTime ELSE <<>>

\* handleRefresh(manual): which key it increments.
RefreshKeyFor(manual) == IF manual THEN "refreshKey" ELSE "autoRefreshKey"

\* What PriceChart returns for its props: the spinner while loading, the error
\* paragraph when an error string is passed, the no-data paragraph when the
\* series is empty, and the chart otherwise.
PriceChartBranch(loading, hasError, hasData) ==
  IF loading THEN "loading"
  ELSE IF hasError THEN "error"
  ELSE IF ~hasData THEN "noData"
  ELSE "chart"

\* The page's PriceChart element: loading = historyLoading and
\* error = isRateLimited ? rateLimitMessage : historyError, where the message
\* is a non-empty string whenever isRateLimited.
ChartPresents ==
  PriceChartBranch(historyLoading, isRateLimited \/ historyError # "none", hasHistory)

\* Some state update has requested a re-render that is not committed yet.
ViewRenderPending ==
  \/ isRateLimited # rlCommitted
  \/ ARRenderPending
  \/ PageLoading # isLoading
  \/ refreshKeyBumped
  \/ autoRefreshKeyBumped
  \/ isManualRefresh # cmManual
  \/ retryCountdown # cmRetryCountdown
  \/ hasHistory # cmHasHistory

\* Mutant: the details effect also depends on autoRefreshKey.
IssueDetails_AnyKey == refreshKeyBumped \/ autoRefreshKeyBumped

\* What the next commit's fetch effects will request: the history effect runs
\* when refreshKey or isManualRefresh changed, the details effect when
\* refreshKey changed, the lightweight refresh effect when autoRefreshKey changed.
IssueHistory == refreshKeyBumped \/ isManualRefresh # cmManual
IssueDetails == refreshKeyBumped
IssueRefresh == autoRefreshKeyBumped

\* The pending commit would put more than MaxInFlight requests of one kind
\* in flight; it waits for a response to settle first.
RenderBlocked ==
  \/ IssueHistory /\ historyInFlight >= MaxInFlight
  \/ IssueDetails /\ detailsInFlight >= MaxInFlight
  \/ IssueRefresh /\ refreshInFlight >= MaxInFlight

\* A pending re-render is committed, and a due zero-delay timeout runs,
\* before the next response is handled.
ViewQuiescent == rlTimeouts = <<>> /\ (~ViewRenderPending \/ RenderBlocked)

\* The refresh button: disabled={isRefreshing || detailsLoading || isRateLimited}.
RefreshButtonDisabled == pageRefreshing \/ detailsLoading \/ isRateLimited

\* handleManualRefresh: handleRefresh(true), then resetAutoRefreshCountdown().
ViewManualRefresh ==
  /\ rlMounted
  /\ ~ViewRenderPending
  /\ ~RefreshButtonDisabled
  /\ ResetRateLimit
  /\ ResetCountdown
  /\ pageRefreshing' = TRUE
  /\ isManualRefresh' = TRUE
  /\ retryCountdown' = <<>>
  /\ refreshKeyBumped' = TRUE
  /\ UNCHANGED <<historyLoading, detailsLoading, hasHistory, autoRefreshKeyBumped,
                 historyInFlight, detailsInFlight, refreshInFlight, retryTimer, cmManual,
                 cmRetryCountdown, cmHasHistory, historyError, detailsError>>
  /\ UNCHANGED <<rlObs, arObs>>
  /\ UNCHANGED <<last, extVars>>

\* The auto-refresh interval fires; onRefresh is () => handleRefresh(false).
ViewAutoTick ==
  /\ ~ViewRenderPending
  /\ rlTimeouts = <<>>
  /\ \E t \in arTimers :
        /\ AutoRefreshTick(t)
        /\ autoRefreshKeyBumped' =
             (autoRefreshKeyBumped
                \/ (TickRefreshes(t) /\ RefreshKeyFor(FALSE) = "autoRefreshKey"))
        /\ refreshKeyBumped' =
             (refreshKeyBumped \/ (TickRefreshes(t) /\ RefreshKeyFor(FALSE) = "refreshKey"))
  /\ UNCHANGED <<historyLoading, detailsLoading, pageRefreshing, isManualRefresh,
                 hasHistory, retryCountdown, historyInFlight,
                 detailsInFlight, refreshInFlight, retryTimer, cmManual, cmRetryCountdown,
                 cmHasHistory, historyError, detailsError>>
  /\ UNCHANGED <<rlVars, rlObs, arObs>>
  /\ UNCHANGED <<last, extVars>>

\* The rate-limit countdown interval fires.
ViewRetryTick ==
  /\ ~ViewRenderPending
  /\ \E t \in rlTimers : CountdownTick(t)
  /\ UNCHANGED <<rlObs, arVars, arObs, pgVars>>
  /\ UNCHANGED <<last, extVars>>

\* The deferred retry runs the page's onRetry closure of the last commit.
ViewDeferredRetry ==
  /\ DeferredRetry
  /\ IF ~rlMounted
     THEN UNCHANGED <<pageRefreshing, isManualRefresh, retryCountdown, refreshKeyBumped,
                      autoRefreshKeyBumped>>
     ELSE IF ~cmHasHistory
          THEN /\ pageRefreshing' = TRUE
               /\ isManualRefresh' = FALSE
               /\ retryCountdown' = <<>>
               /\ refreshKeyBumped' = TRUE
               /\ UNCHANGED autoRefreshKeyBumped
          ELSE /\ autoRefreshKeyBumped' = TRUE
               /\ UNCHANGED <<pageRefreshing, isManualRefresh, retryCountdown,
                              refreshKeyBumped>>
  /\ UNCHANGED <<historyLoading, detailsLoading, hasHistory, historyInFlight,
                 detailsInFlight, refreshInFlight, retryTimer, cmManual, cmRetryCountdown,
                 cmHasHistory, historyError, detailsError>>
  /\ UNCHANGED <<rlObs, arVars, arObs>>
  /\ UNCHANGED <<last, extVars>>

\* The error kinds each catch block returns on before it schedules anything:
\* the history catch tests isSymbolNotFoundError and isEmptyHistoryError, the
\* details catch only isSymbolNotFoundError.
HistoryTerminalKinds == {"notFound", "emptyHistory"}
DetailsTerminalKinds == {"notFound"}

\* then / catch of the history and details fetches, as far as retries go:
\* success clears the fixed-delay countdown, a terminal kind returns, a rate
\* limit starts the countdown, anything else schedules the 5 s retry.
StartRetryFor(o, terminalKinds) ==
  IF o.kind = "rateLimit"
  THEN StartRetryCountdown(CaughtWaitTime(TRUE, ResponseWaitTime(o.wait)))
          /\ UNCHANGED retryCountdown
  ELSE /\ UNCHANGED rlVars
       /\ retryCountdown' = IF o.kind = "ok" THEN <<>>
                             ELSE IF o.kind \in terminalKinds THEN retryCountdown
                             ELSE <<RETRY_DELAY>>

\* fetchAssetHistory settles: then / catch / finally.
ViewHistoryDone(o) ==
  /\ rlMounted
  /\ ViewQuiescent
  /\ historyInFlight > 0
  /\ historyInFlight' = historyInFlight - 1
  /\ StartRetryFor(o, HistoryTerminalKinds)
  /\ hasHistory' = IF o.kind = "ok" THEN TRUE ELSE hasHistory
  /\ historyError' = IF o.kind = "ok" THEN historyError
                     ELSE IF o.kind \in {"notFound", "emptyHistory"} THEN o.kind
                     ELSE "generic"
  /\ UNCHANGED detailsError
  /\ historyLoading' = FALSE
  /\ pageRefreshing' = FALSE
  /\ isManualRefresh' = FALSE
  /\ UNCHANGED <<detailsLoading, refreshKeyBumped, autoRefreshKeyBumped, detailsInFlight,
                 refreshInFlight, retryTimer, cmManual, cmRetryCountdown, cmHasHistory>>
  /\ UNCHANGED <<rlObs, arVars, arObs>>
  /\ UNCHANGED <<last, extVars>>

\* fetchAssetDetails settles: then / catch / finally.
ViewDetailsDone(o) ==
  /\ rlMounted
  /\ ViewQuiescent
  /\ detailsInFlight > 0
  /\ detailsInFlight' = detailsInFlight - 1
  /\ StartRetryFor(o, DetailsTerminalKinds)
  /\ detailsLoading' = FALSE
  /\ pageRefreshing' = FALSE
  /\ detailsError' = IF o.kind = "ok" THEN detailsError
                     ELSE IF o.kind \in {"notFound", "emptyHistory"} THEN o.kind
                     ELSE "generic"
  /\ UNCHANGED historyError
  /\ UNCHANGED <<historyLoading, isManualRefresh, hasHistory, refreshKeyBumped,
                 autoRefreshKeyBumped, historyInFlight, refreshInFlight, retryTimer,
                 cmManual, cmRetryCountdown, cmHasHistory>>
  /\ UNCHANGED <<rlObs, arVars, arObs>>
  /\ UNCHANGED <<last, extVars>>

\* fetchAssetRefresh settles: merge on success, countdown on a rate limit,
\* nothing otherwise.
ViewRefreshDone(o) ==
  /\ rlMounted
  /\ ViewQuiescent
  /\ refreshInFlight > 0
  /\ refreshInFlight' = refreshInFlight - 1
  /\ IF o.kind = "rateLimit"
     THEN StartRetryCountdown(CaughtWaitTime(TRUE, ResponseWaitTime(o.wait)))
          /\ UNCHANGED retryCountdown
     ELSE /\ UNCHANGED rlVars
          /\ retryCountdown' = IF o.kind = "ok" THEN <<>> ELSE retryCountdown
  /\ UNCHANGED <<historyLoading, detailsLoading, pageRefreshing, isManualRefresh,
                 hasHistory, refreshKeyBumped, autoRefreshKeyBumped, historyInFlight,
                 detailsInFlight, retryTimer, cmManual, cmRetryCountdown, cmHasHistory,
                 historyError, detailsError>>
  /\ UNCHANGED <<rlObs, arVars, arObs>>
  /\ UNCHANGED <<last, extVars>>

\* The fixed-delay effect's setTimeout fires: setRetryCountdown(prev => prev - 1).
ViewRetryCountdownTick ==
  /\ rlMounted
  /\ retryTimer
  /\ ~ViewRenderPending
  /\ rlTimeouts = <<>>
  /\ retryTimer' = FALSE
  /\ retryCountdown' = IF retryCountdown # <<>> THEN <<retryCountdown[1] - 1>> ELSE <<>>
  /\ UNCHANGED <<historyLoading, detailsLoading, pageRefreshing, isManualRefresh,
                 hasHistory, refreshKeyBumped, autoRefreshKeyBumped, historyInFlight,
                 detailsInFlight, refreshInFlight, cmManual, cmRetryCountdown,
                 cmHasHistory, historyError, detailsError>>
  /\ UNCHANGED <<rlVars, rlObs, arVars, arObs>>
  /\ UNCHANGED <<last, extVars>>

\* A commit of the page: both hooks' effects and the page's own effects, each
\* run when one of its dependencies changed since the last commit.
ViewRender ==
  LET countdownChanged == retryCountdown # cmRetryCountdown
  IN  /\ rlMounted
      /\ ViewRenderPending
      /\ ~RenderBlocked
      /\ RLCommit(onRetryRef)
      /\ ARCommit(TRUE, isRateLimited, PageLoading, onRefreshRef)
      /\ retryTimer' = IF countdownChanged
                        THEN retryCountdown # <<>> /\ retryCountdown[1] > 0
                        ELSE retryTimer
      /\ autoRefreshKeyBumped' = (/\ countdownChanged /\ retryCountdown = <<0>>
                                  /\ RefreshKeyFor(FALSE) = "autoRefreshKey")
      /\ refreshKeyBumped' = (/\ countdownChanged /\ retryCountdown = <<0>>
                              /\ RefreshKeyFor(FALSE) = "refreshKey")
      /\ historyError' = IF IssueHistory THEN "none" ELSE historyError
      /\ detailsError' = IF IssueDetails THEN "none" ELSE detailsError
      /\ historyInFlight' = historyInFlight + (IF IssueHistory THEN 1 ELSE 0)
      /\ historyLoading' = (historyLoading \/ IssueHistory)
      /\ detailsInFlight' = detailsInFlight + (IF IssueDetails THEN 1 ELSE 0)
      /\ detailsLoading' = (detailsLoading \/ IssueDetails)
      /\ refreshInFlight' = refreshInFlight + (IF IssueRefresh THEN 1 ELSE 0)
      /\ cmManual' = isManualRefresh
      /\ cmRetryCountdown' = retryCountdown
      /\ cmHasHistory' = hasHistory
      /\ UNCHANGED <<pageRefreshing, isManualRefresh, hasHistory, retryCountdown>>
      /\ UNCHANGED <<rlObs, arObs>>
      /\ UNCHANGED <<last, extVars>>

ViewSettle ==
  \E o \in Outcomes : ViewHistoryDone(o) \/ ViewDetailsDone(o) \/ ViewRefreshDone(o)

\* A request settles with a success or a rate limit.
ViewSettleOkOrLimited ==
  \E o \in {x \in Outcomes : x.kind \in {"ok", "rateLimit"}} :
    ViewHistoryDone(o) \/ ViewDetailsDone(o) \/ ViewRefreshDone(o)

InitView ==
  /\ RLInit(TRUE)
  /\ ARInit(TRUE, TRUE, FALSE, TRUE)
  /\ PageInit(TRUE)
  /\ ExtOff
  /\ last = "init"

\* The page over the whole auto-refresh countdown, with a server that answers
\* every request with a success or a rate limit.
NextView ==
  \/ ViewManualRefresh
  \/ ViewAutoTick
  \/ ViewRetryTick
  \/ ViewDeferredRetry
  \/ ViewSettleOkOrLimited
  \/ ViewRender

SpecView == InitView /\ [][NextView]_vars

\* The same page with every kind of failure, each auto-refresh countdown
\* followed for its first MaxAutoTicks seconds only.
PageAutoTick ==
  /\ arSecondsRemaining > IntervalSeconds - MaxAutoTicks
  /\ ViewAutoTick

NextPage ==
  \/ ViewManualRefresh
  \/ PageAutoTick
  \/ ViewRetryTick
  \/ ViewDeferredRetry
  \/ ViewSettle
  \/ ViewRetryCountdownTick
  \/ ViewRender

SpecPage == InitView /\ [][NextPage]_vars

(* -------- a rate-limit response handed to the retry controller -------- *)
\* A request of the page is answered with HTTP 429 reporting the wait sw (or
\* none): handleResponseError throws the RateLimitError, fetchWithRetry rethrows
\* it, and the catch block calls startRetryCountdown with its waitTime.
HandoffRateLimit ==
  /\ \E sw \in Waits :
        /\ serverWait' = sw
        /\ StartRetryCountdown(CaughtWaitTime(TRUE, ResponseWaitTime(sw)))
        /\ rlWait' = CaughtWaitTime(TRUE, ResponseWaitTime(sw))
  /\ rlTicks' = 0
  /\ rlFired' = 0
  /\ rlClean' = RLIdle
  /\ rlHandlerAtStart' = onRetryRef
  /\ UNCHANGED <<rlStaleFire, rlCancelled>>
  /\ last' = "handoff"
  /\ UNCHANGED <<arVars, arObs, pgVars, fwVars, mgVars, hmVars, fnVars, lgVars, ivVars>>

NextHandoff ==
  \/ HandoffRateLimit
  \/ RetryTick
  \/ RetryDeferred
  \/ RetryRender

SpecHandoff == InitRetry /\ [][NextHandoff]_vars

(* ------------------------ useAssets (home page) ------------------------ *)
\* How fetchAllAssets settles: fulfilled, rejected with a rate limit, or
\* rejected with anything else.
HomeOutcomes == {"ok", "rateLimit", "other"}

HomeFrame ==
  UNCHANGED <<rlObs, arObs, pgVars, serverWait, fwVars, mgVars, fnVars, lgVars, ivVars, last>>

\* Some state update has requested a re-render that is not committed yet.
HomeRenderPending ==
  \/ isRateLimited # rlCommitted
  \/ rateLimitTriggered # cmTriggered
  \/ hmLoading # isLoading
  \/ ARRenderPending

\* Nothing is left to do in the current turn.
HomeQuiescent == ~HomeRenderPending /\ hmEffects = "none"

\* fetchAllAssets is called: setLoading(true), setError(null), the request goes out.
FetchAllAssets ==
  /\ hmInFlight < MaxInFlight
  /\ hmInFlight' = hmInFlight + 1
  /\ hmLoading' = TRUE

\* fetchAllAssets settles: try / catch / finally.
HomeFetchDone(o) ==
  /\ hmMounted
  /\ HomeQuiescent
  /\ rlTimeouts = <<>>
  /\ hmInFlight > 0
  /\ hmInFlight' = hmInFlight - 1
  /\ rateLimitTriggered' = (o = "rateLimit")
  /\ hmLoading' = FALSE
  /\ UNCHANGED <<cmTriggered, hmEffects, hmMounted, hmManualSince, rlVars, arVars>>
  /\ HomeFrame

\* handleManualRefresh: fetchAllAssets(stockLimit); resetAutoRefreshCountdown().
HomeManualRefresh ==
  /\ hmMounted
  /\ HomeQuiescent
  /\ FetchAllAssets
  /\ ResetCountdown
  /\ hmManualSince' = TRUE
  /\ UNCHANGED <<rateLimitTriggered, cmTriggered, hmEffects, hmMounted, rlVars>>
  /\ HomeFrame

\* The auto-refresh interval fires; onRefresh is handleAutoRefresh.
HomeAutoTick ==
  /\ HomeQuiescent
  /\ rlTimeouts = <<>>
  /\ \E t \in arTimers :
        /\ AutoRefreshTick(t)
        /\ IF TickRefreshes(t) THEN FetchAllAssets ELSE UNCHANGED <<hmInFlight, hmLoading>>
  /\ UNCHANGED <<rateLimitTriggered, cmTriggered, hmEffects, hmMounted, hmManualSince,
                 rlVars>>
  /\ HomeFrame

\* The rate-limit countdown interval fires.
HomeRetryTick ==
  /\ HomeQuiescent
  /\ \E t \in rlTimers : CountdownTick(t)
  /\ UNCHANGED <<hmVars, arVars>>
  /\ HomeFrame

\* The deferred retry runs handleRetry: fetchAllAssets(stockLimit).
HomeDeferredRetry ==
  /\ hmEffects = "none"
  /\ DeferredRetry
  /\ FetchAllAssets
  /\ UNCHANGED <<rateLimitTriggered, cmTriggered, hmEffects, hmMounted, hmManualSince,
                 arVars>>
  /\ HomeFrame

\* Which of the two rate-limit effects of useAssets acts in a commit that
\* renders rateLimitTriggered = trig and isRateLimited = limited.
HomeEffectDue(depsChanged, trig, limited) ==
  IF ~depsChanged THEN "none"
  ELSE IF trig /\ ~limited THEN "start"
  ELSE IF ~trig /\ limited THEN "reset"
  ELSE "none"

\* A commit of the home page: the hooks' effects run; the two rate-limit
\* effects of useAssets run right after, as the step HomeEffects.
HomeRender ==
  /\ hmMounted
  /\ HomeRenderPending
  /\ hmEffects = "none"
  /\ RLCommit(onRetryRef)
  /\ ARCommit(TRUE, rateLimitTriggered, hmLoading, onRefreshRef)
  /\ hmEffects' = HomeEffectDue(rateLimitTriggered # cmTriggered \/ isRateLimited # rlCommitted,
                                 rateLimitTriggered, isRateLimited)
  /\ cmTriggered' = rateLimitTriggered
  /\ UNCHANGED <<rateLimitTriggered, hmLoading, hmInFlight, hmMounted, hmManualSince>>
  /\ HomeFrame

\* if (rateLimitTriggered && !isRateLimited) startRetryCountdown();
\* if (!rateLimitTriggered && isRateLimited) resetRateLimit();
HomeEffects ==
  /\ hmEffects # "none"
  /\ IF hmEffects = "start" THEN StartRetryCountdown(<<>>) ELSE ResetRateLimit
  /\ hmEffects' = "none"
  /\ hmManualSince' = (hmManualSince /\ hmEffects # "start")
  /\ UNCHANGED <<rateLimitTriggered, hmLoading, hmInFlight, cmTriggered, hmMounted, arVars>>
  /\ HomeFrame

HomeSettle == \E o \in HomeOutcomes : HomeFetchDone(o)

InitHome ==
  /\ RLInit(TRUE)
  /\ ARInit(TRUE, TRUE, FALSE, TRUE)
  /\ PageInit(FALSE)
  /\ HandoffInit /\ FetchOff /\ MergeOff /\ FnOff /\ LoggerOff /\ IntervalOff
  /\ HomeInit(TRUE)
  /\ last = "init"

NextHome ==
  \/ HomeSettle
  \/ HomeManualRefresh
  \/ HomeAutoTick
  \/ HomeRetryTick
  \/ HomeDeferredRetry
  \/ HomeRender
  \/ HomeEffects

SpecHome == InitHome /\ [][NextHome]_vars

(* ---------------------- fetchWithRetry (network layer) ----------------- *)
RETRY_DELAY_MS == 5000
MAX_RETRIES == 2

\* HTTP statuses the data service answers with: success, rate limit,
\* Cloudflare timeout, any other failure.
Statuses == {200, 429, 522, 500}

\* What handleResponseError looks at in a response: the status and, of the
\* error text (errorData.error, or "HTTP <status>"), whether it names a rate
\* limit, whether is522Error accepts it, whether the body is marked
\* empty_history / no_retry, and whether isDelistedError accepts it.
Responses ==
  [status : Statuses, rateLimitText : BOOLEAN, text522 : BOOLEAN,
   emptyHistory : BOOLEAN, delisted : BOOLEAN]

\* An outcome of fetchFn: the class of what it throws ("ok" when it returns)
\* and is522Error(message) of the thrown error.
Thrown(cls, is522) == [cls |-> cls, is522 |-> is522]

FetchReturned == Thrown("ok", FALSE)

\* fetch() itself rejects (network failure): a TypeError, "Failed to fetch".
FetchRejected == Thrown("TypeError", FALSE)

HandleResponseError(r) ==
  IF r.status = 429 \/ r.rateLimitText THEN Thrown("RateLimitError", r.text522)
  ELSE IF r.status = 522 \/ r.text522 THEN Thrown("ServerTimeoutError", r.text522)
  ELSE IF r.emptyHistory THEN Thrown("EmptyHistoryError", FALSE)
  ELSE IF r.delisted THEN Thrown("SymbolNotFoundError", FALSE)
  ELSE Thrown("Error", FALSE)

\* The fetchFn of the fetchers: if (!response.ok) handleResponseError(response).
FetchFn(r) == IF r.status = 200 THEN FetchReturned ELSE HandleResponseError(r)

FetchOutcomes == {FetchFn(r) : r \in Responses} \cup {FetchRejected}

\* The catch block's test: retry only a ServerTimeoutError or a 522 message.
ShouldRetry(e) == e.cls = "ServerTimeoutError" \/ e.is522

\* if (attempt < MAX_RETRIES) sleep, else fall out of the loop.
MoreAttempts(attempt) == attempt < MAX_RETRIES

FetchFrame ==
  UNCHANGED <<rlVars, rlObs, arVars, arObs, pgVars, serverWait, mgVars, hmVars, fnVars,
              lgVars, ivVars, last>>

\* One iteration of the loop up to its await: fetchFn settles.
FetchAttempt ==
  /\ fwPc = "call"
  /\ \E e \in FetchOutcomes :
        /\ fwResults' = Append(fwResults, e)
        /\ IF e = FetchReturned
           THEN /\ fwPc' = "returned"
                /\ UNCHANGED <<fwAttempt, fwRaised>>
           ELSE IF ~ShouldRetry(e)
           THEN /\ fwPc' = "raised"
                /\ fwRaised' = <<e>>
                /\ UNCHANGED fwAttempt
           ELSE IF MoreAttempts(fwAttempt)
           THEN /\ fwPc' = "sleep"
                /\ UNCHANGED <<fwAttempt, fwRaised>>
           ELSE /\ fwPc' = "raised"
                /\ fwAttempt' = fwAttempt + 1
                /\ fwRaised' = <<e>>
  /\ UNCHANGED fwDelayMs
  /\ FetchFrame

\* sleep(RETRY_DELAY_MS) resolves; attempt++ and the next iteration begins.
FetchSleepDone ==
  /\ fwPc = "sleep"
  /\ fwDelayMs' = Append(fwDelayMs, RETRY_DELAY_MS)
  /\ fwAttempt' = fwAttempt + 1
  /\ fwPc' = "call"
  /\ UNCHANGED <<fwResults, fwRaised>>
  /\ FetchFrame

\* fetchWithRetry has just been called.
InitFetch ==
  /\ RLInit(FALSE)
  /\ ARInit(FALSE, FALSE, FALSE, FALSE)
  /\ PageInit(FALSE)
  /\ HandoffInit /\ MergeOff /\ HomeInit(FALSE) /\ FnOff /\ LoggerOff /\ IntervalOff
  /\ fwPc = "call"
  /\ fwAttempt = 0
  /\ fwResults = <<>>
  /\ fwDelayMs = <<>>
  /\ fwRaised = <<>>
  /\ last = "init"

NextFetch ==
  \/ FetchAttempt
  \/ FetchSleepDone

SpecFetch == InitFetch /\ [][NextFetch]_vars

(* -------------------- the history series and its merge ----------------- *)
\* Candles carry a timestamp in 1..MaxTimestamp and a price in 1..MaxPrice; a
\* lightweight response carries at most MaxBatch candles.
MaxTimestamp == 3
MaxPrice == 2
MaxBatch == 3

Candles == [timestamp : 1..MaxTimestamp, price : 1..MaxPrice]

StrictlyAscending(series) ==
  \A i \in 1..Len(series) - 1 : series[i].timestamp < series[i + 1].timestamp

\* response.history of a full-history response: strictly ascending, possibly empty.
FullHistories ==
  {h \in UNION {[1..n -> Candles] : n \in 0..MaxTimestamp} : StrictlyAscending(h)}

\* response.candles of a lightweight response: any order, repeats allowed.
Batches == UNION {[1..n -> Candles] : n \in 0..MaxBatch}

\* Map.prototype.set on the entries in insertion order: an existing key keeps
\* its position and takes the new value, a new key goes to the end.
MapSet_KeepExisting(entries, candle) ==
  IF \E i \in 1..Len(entries) : entries[i].timestamp = candle.timestamp
  THEN entries
  ELSE Append(entries, candle)

MapSet(entries, candle) ==
  IF \E i \in 1..Len(entries) : entries[i].timestamp = candle.timestamp
  THEN [i \in 1..Len(entries) |->
          IF entries[i].timestamp = candle.timestamp THEN candle ELSE entries[i]]
  ELSE Append(entries, candle)

\* new Map(prev.map(p => [p.timestamp, p])), then set() for each new candle.
RECURSIVE MapSetAll(_, _)
MapSetAll(entries, candles) ==
  IF candles = <<>> THEN entries
  ELSE MapSetAll(MapSet(entries, Head(candles)), Tail(candles))

\* One step of the (stable) sort: put candle after the entries not later than it.
RECURSIVE InsertByTimestamp(_, _)
InsertByTimestamp(sorted, candle) ==
  IF sorted = <<>> THEN <<candle>>
  ELSE IF Head(sorted).timestamp <= candle.timestamp
  THEN <<Head(sorted)>> \o InsertByTimestamp(Tail(sorted), candle)
  ELSE <<candle>> \o sorted

SortByTimestamp_Unsorted(values) == values

\* .sort((a, b) => a.timestamp - b.timestamp)
RECURSIVE SortByTimestamp(_)
SortByTimestamp(values) ==
  IF values = <<>> THEN <<>>
  ELSE InsertByTimestamp(SortByTimestamp(SubSeq(values, 1, Len(values) - 1)),
                         values[Len(values)])

MergeCandles_Concat(prev, candles) ==
  IF prev = <<>> THEN prev
  ELSE SortByTimestamp(prev \o candles)

\* The updater passed to setHistoryData in the lightweight refresh.
MergeCandles(prev, candles) ==
  IF prev = <<>> THEN prev
  ELSE SortByTimestamp(MapSetAll(MapSetAll(<<>>, prev), candles))

\* then-handler of fetchAssetRefresh: merge only a non-empty candles array.
RefreshCandles(prev, candles) ==
  IF Len(candles) > 0 THEN MergeCandles(prev, candles) ELSE prev

MergeFrame ==
  UNCHANGED <<rlVars, rlObs, arVars, arObs, pgVars, serverWait, fwVars, hmVars, fnVars,
              lgVars, ivVars>>

\* fetchAssetHistory succeeds: setHistoryData(response.history).
FullHistoryResponse ==
  /\ \E h \in FullHistories : historyData' = h
  /\ mergeBefore' = <<>>
  /\ mergeIncoming' = <<>>
  /\ last' = "history"
  /\ MergeFrame

\* fetchAssetRefresh succeeds with some candles.
LightweightMerge ==
  /\ \E candles \in Batches :
        /\ mergeIncoming' = candles
        /\ historyData' = RefreshCandles(historyData, candles)
  /\ mergeBefore' = historyData
  /\ last' = "merge"
  /\ MergeFrame

InitMerge ==
  /\ RLInit(FALSE)
  /\ ARInit(FALSE, FALSE, FALSE, FALSE)
  /\ PageInit(FALSE)
  /\ HandoffInit /\ FetchOff /\ MergeOff /\ HomeInit(FALSE) /\ FnOff /\ LoggerOff /\ IntervalOff
  /\ last = "init"

NextMerge ==
  \/ FullHistoryResponse
  \/ LightweightMerge

SpecMerge == InitMerge /\ [][NextMerge]_vars

\* The lightweight response just merged arrives once more (a repeated
\* refresh whose candles have not changed).
MergeSameBatchAgain ==
  /\ last = "merge"
  /\ historyData' = RefreshCandles(historyData, mergeIncoming)
  /\ mergeBefore' = historyData
  /\ UNCHANGED mergeIncoming
  /\ last' = "again"
  /\ MergeFrame

\* A lightweight response carries exactly the candles already stored.
MergeStoredSeries ==
  /\ historyData' = RefreshCandles(historyData, historyData)
  /\ mergeBefore' = historyData
  /\ mergeIncoming' = historyData
  /\ last' = "self"
  /\ MergeFrame

NextMergeRepeated ==
  \/ FullHistoryResponse
  \/ LightweightMerge
  \/ MergeSameBatchAgain
  \/ MergeStoredSeries

SpecMergeRepeated == InitMerge /\ [][NextMergeRepeated]_vars

\* Two lightweight refresh requests are in flight over a stored series;
\* their responses carry at most MaxOrderBatch candles each and arrive in
\* either order.  fnArgs keeps the series and the two responses.
MaxOrderBatch == 2

InitMergeOrder ==
  /\ RLInit(FALSE)
  /\ ARInit(FALSE, FALSE, FALSE, FALSE)
  /\ PageInit(FALSE)
  /\ HandoffInit /\ FetchOff /\ HomeInit(FALSE) /\ LoggerOff /\ IntervalOff
  /\ historyData \in FullHistories
  /\ mergeBefore = <<>>
  /\ mergeIncoming = <<>>
  /\ \E b, c \in UNION {[1..n -> Candles] : n \in 0..MaxOrderBatch} :
        fnArgs = [series |-> historyData, B |-> b, C |-> c, pending |-> {"B", "C"}]
  /\ fnResult = <<>>
  /\ last = "init"

\* fetchAssetRefresh succeeds for one of the two requests.
RefreshArrives ==
  \E k \in fnArgs.pending :
    /\ mergeIncoming' = fnArgs[k]
    /\ historyData' = RefreshCandles(historyData, fnArgs[k])
    /\ mergeBefore' = historyData
    /\ fnArgs' = [fnArgs EXCEPT !.pending = @ \ {k}]
    /\ last' = k
    /\ UNCHANGED <<rlVars, rlObs, arVars, arObs, pgVars, serverWait, fwVars, hmVars,
                   fnResult, lgVars, ivVars>>

NextMergeOrder == RefreshArrives

SpecMergeOrder == InitMergeOrder /\ [][NextMergeOrder]_vars

(* ------------- the candle interval and the responses in flight -------- *)
\* At most MaxRequests requests are in flight; a response holds candles with
\* timestamps up to MaxIntervalTimestamp.
MaxRequests == 3
MaxIntervalTimestamp == 3

\* CANDLE_INTERVALS
CANDLE_INTERVALS == {"5m", "15m", "1h", "1d"}

\* A candle the server computed for an interval.
IntervalCandle(timestamp, interval) ==
  [timestamp |-> timestamp, price |-> 1, interval |-> interval]

\* response.history of fetchAssetHistory(..., interval, ...)
HistoryResponses(interval) ==
  {[k \in 1..n |-> IntervalCandle(k, interval)] : n \in 1..(MaxIntervalTimestamp - 1)}

\* response.candles of fetchAssetRefresh(..., interval, 5)
RefreshResponses(interval) ==
  {<<>>} \cup {<<IntervalCandle(t, interval)>> : t \in 2..MaxIntervalTimestamp}

Request(kind, interval) == [kind |-> kind, interval |-> interval]

RemoveAt(seq, k) == SubSeq(seq, 1, k - 1) \o SubSeq(seq, k + 1, Len(seq))

IntervalFrame ==
  UNCHANGED <<rlVars, rlObs, arVars, arObs, pgVars, serverWait, fwVars, hmVars, fnVars,
              lgVars, mergeBefore, mergeIncoming>>

\* The page after its first commit: the history effect has called
\* fetchAssetHistory for '1h'; the refresh effect returned on autoRefreshKey 0.
InitInterval ==
  /\ RLInit(FALSE)
  /\ ARInit(FALSE, FALSE, FALSE, FALSE)
  /\ PageInit(FALSE)
  /\ HandoffInit /\ FetchOff /\ MergeOff /\ HomeInit(FALSE) /\ FnOff /\ LoggerOff
  /\ candleInterval = "1h"
  /\ intervalLoading = TRUE
  /\ autoRefreshKey = 0
  /\ requestsInFlight = <<Request("history", "1h")>>
  /\ last = "init"

\* A TimeRangeSelector button (disabled while historyLoading) is clicked:
\* setCandleInterval(value), and the commit that follows runs the history
\* effect and the lightweight refresh effect, which both depend on
\* candleInterval.
SelectInterval ==
  \E value \in CANDLE_INTERVALS \ {candleInterval} :
    LET refresh == IF autoRefreshKey = 0 THEN <<>> ELSE <<Request("refresh", value)>>
    IN  /\ ~intervalLoading
        /\ Len(requestsInFlight) + 1 + Len(refresh) <= MaxRequests
        /\ candleInterval' = value
        /\ intervalLoading' = TRUE
        /\ requestsInFlight' = requestsInFlight \o <<Request("history", value)>> \o refresh
        /\ last' = "select"
        /\ UNCHANGED <<autoRefreshKey, historyData>>
        /\ IntervalFrame

\* The auto-refresh interval calls handleRefresh(false) (not while the page
\* is loading): setAutoRefreshKey(prev => prev + 1), and the commit that
\* follows runs the lightweight refresh effect.
IntervalAutoRefresh ==
  /\ ~intervalLoading
  /\ Len(requestsInFlight) < MaxRequests
  /\ autoRefreshKey' = 1
  /\ requestsInFlight' = Append(requestsInFlight, Request("refresh", candleInterval))
  /\ last' = "autoRefresh"
  /\ UNCHANGED <<candleInterval, intervalLoading, historyData>>
  /\ IntervalFrame

\* fetchAssetHistory settles: setHistoryData(response.history) on success,
\* setHistoryLoading(false) in any case.
IntervalHistoryDone ==
  \E k \in 1..Len(requestsInFlight), ok \in BOOLEAN :
    /\ requestsInFlight[k].kind = "history"
    /\ IF ok
       THEN \E history \in HistoryResponses(requestsInFlight[k].interval) :
              historyData' = history
       ELSE UNCHANGED historyData
    /\ intervalLoading' = FALSE
    /\ requestsInFlight' = RemoveAt(requestsInFlight, k)
    /\ last' = "history"
    /\ UNCHANGED <<candleInterval, autoRefreshKey>>
    /\ IntervalFrame

\* fetchAssetRefresh settles: the candles are merged into the stored series
\* on success.
IntervalRefreshDone ==
  \E k \in 1..Len(requestsInFlight), ok \in BOOLEAN :
    /\ requestsInFlight[k].kind = "refresh"
    /\ IF ok
       THEN \E candles \in RefreshResponses(requestsInFlight[k].interval) :
              historyData' = RefreshCandles(historyData, candles)
       ELSE UNCHANGED historyData
    /\ requestsInFlight' = RemoveAt(requestsInFlight, k)
    /\ last' = "refresh"
    /\ UNCHANGED <<candleInterval, intervalLoading, autoRefreshKey>>
    /\ IntervalFrame

NextInterval ==
  \/ SelectInterval
  \/ IntervalAutoRefresh
  \/ IntervalHistoryDone
  \/ IntervalRefreshDone

SpecInterval == InitInterval /\ [][NextInterval]_vars

(* ---------------------------- convertTimezone -------------------------- *)
\* Everything a pure-function call leaves alone.
FnFrame ==
  UNCHANGED <<rlVars, rlObs, arVars, arObs, pgVars, serverWait, fwVars, mgVars, hmVars,
              lgVars, ivVars>>

\* The hooks, the pages and the services are not there.
FnInit ==
  /\ RLInit(FALSE)
  /\ ARInit(FALSE, FALSE, FALSE, FALSE)
  /\ PageInit(FALSE)
  /\ HandoffInit /\ FetchOff /\ MergeOff /\ HomeInit(FALSE) /\ LoggerOff /\ IntervalOff
  /\ fnResult = <<>>
  /\ last = "init"

\* The calendar the dates live in: the years FirstYear and FirstYear + 1.
FirstYear == 2023

DaysInMonth(year, month) ==
  IF month = 2 THEN (IF year % 4 = 0 THEN 29 ELSE 28)
  ELSE IF month \in {4, 6, 9, 11} THEN 30
  ELSE 31

CalendarDates ==
  {d \in {FirstYear, FirstYear + 1} \X (1..12) \X (1..31) : d[3] <= DaysInMonth(d[1], d[2])}

RECURSIVE DaysBeforeMonth(_, _)
DaysBeforeMonth(year, month) ==
  IF month = 1
  THEN (IF year = FirstYear THEN 0 ELSE 337 + DaysInMonth(FirstYear, 2))
  ELSE DaysBeforeMonth(year, month - 1) + DaysInMonth(year, month - 1)

\* Date.UTC(year, month - 1, day, hour, minute), in minutes since the start
\* of FirstYear.
DateUTC(year, month, day, hour, minute) ==
  (DaysBeforeMonth(year, month) + day - 1) * 1440 + hour * 60 + minute

\* The IANA zones offered, with the UTC offset each keeps from November to
\* early March, in minutes; any other id is unknown to Intl.
ZoneOffsets ==
  [z \in {"UTC", "Asia/Hong_Kong", "America/New_York", "Asia/Kolkata"} |->
     CASE z = "UTC" -> 0
       [] z = "Asia/Hong_Kong" -> 480
       [] z = "America/New_York" -> 0 - 300
       [] z = "Asia/Kolkata" -> 330]

KnownZone(zone) == zone \in DOMAIN ZoneOffsets

\* Intl.DateTimeFormat('en-US', {timeZone, ..., hour12: false}).formatToParts
\* read through getPartValue: the zone's wall clock at the instant.  h24 says
\* whether this engine prints the hour after midnight as 24 rather than 00.
FormatToParts(zone, instant, h24) ==
  LET local == instant + ZoneOffsets[zone]
      date == CHOOSE d \in CalendarDates :
                DateUTC(d[1], d[2], d[3], 0, 0) = (local \div 1440) * 1440
      hour == (local % 1440) \div 60
  IN  [year |-> date[1], month |-> date[2], day |-> date[3],
       hour |-> IF hour = 0 /\ h24 THEN 24 ELSE hour,
       minute |-> local % 60]

\* A date string: "YYYY-MM-DD" (time <<>>) or "YYYY-MM-DD HH:MM"
\* (time <<HH, MM>>); space says whether it contains a blank, so
\* [time |-> <<>>, space |-> TRUE] is a date followed by a blank.
DateString(date, time, space) == [date |-> date, time |-> time, space |-> space]

\* dateStr.includes(' ') && dateStr.split(' ').length > 1
HasTime(dateStr) == dateStr.space

\* const wantedMinutes = hour * 60 + minute + day * 24 * 60, and the same of
\* the source display.
ClockMinutes(year, month, day, hour, minute) == hour * 60 + minute + day * 24 * 60

\* The try block; it throws (RangeError) when a zone is unknown or when the
\* time part gives no minute (Date.UTC is NaN, formatToParts rejects it).
ConvertThrows(dateStr, fromTimezone, toTimezone) ==
  \/ dateStr.time = <<>>
  \/ ~KnownZone(fromTimezone)
  \/ ~KnownZone(toTimezone)

ConvertTry(dateStr, fromTimezone, toTimezone, h24) ==
  LET year == dateStr.date[1]
      month == dateStr.date[2]
      day == dateStr.date[3]
      hour == dateStr.time[1]
      minute == dateStr.time[2]
      refDate == DateUTC(year, month, day, hour, minute)
      sourceDisplay == FormatToParts(fromTimezone, refDate, h24)
      wantedMinutes == ClockMinutes(year, month, day, hour, minute)
      sourceMinutes == ClockMinutes(sourceDisplay.year, sourceDisplay.month,
                                    sourceDisplay.day, sourceDisplay.hour,
                                    sourceDisplay.minute)
      diffMinutes == wantedMinutes - sourceMinutes
      actualUtcTime == refDate + diffMinutes
      targetDisplay == FormatToParts(toTimezone, actualUtcTime, h24)
      targetHour == IF targetDisplay.hour = 24 THEN 0 ELSE targetDisplay.hour
  IN  DateString(<<targetDisplay.year, targetDisplay.month, targetDisplay.day>>,
                 <<targetHour, targetDisplay.minute>>, TRUE)

ConvertCatch_Blank(dateStr) == DateString(dateStr.date, <<>>, FALSE)

\* catch (e) { return dateStr; }
ConvertCatch(dateStr) == dateStr

SameZoneResult_Converted(dateStr, fromTimezone, toTimezone, h24) ==
  IF dateStr.time = <<>> \/ ~KnownZone(fromTimezone) THEN dateStr
  ELSE ConvertTry(dateStr, fromTimezone, "UTC", h24)

\* if (fromTimezone === toTimezone) return dateStr;
SameZoneResult(dateStr, fromTimezone, toTimezone, h24) == dateStr

ConvertTimezone(dateStr, fromTimezone, toTimezone, h24) ==
  IF fromTimezone = toTimezone
  THEN SameZoneResult(dateStr, fromTimezone, toTimezone, h24)
  ELSE IF ~HasTime(dateStr) THEN dateStr
  ELSE IF ConvertThrows(dateStr, fromTimezone, toTimezone) THEN ConvertCatch(dateStr)
  ELSE ConvertTry(dateStr, fromTimezone, toTimezone, h24)

\* The inputs: dates around the turn of a month and of the year, every hour,
\* minutes 0 and 30; the zones above and an id Intl does not know.
TzDates ==
  {<<FirstYear, 12, 31>>, <<FirstYear + 1, 1, 1>>, <<FirstYear + 1, 1, 15>>,
   <<FirstYear + 1, 1, 31>>, <<FirstYear + 1, 2, 1>>}

TzDateStrings ==
  {DateString(d, <<>>, sp) : d \in TzDates, sp \in BOOLEAN}
    \cup {DateString(d, <<h, mi>>, TRUE) : d \in TzDates, h \in 0..23, mi \in {0, 30}}

TzZones == DOMAIN ZoneOffsets \cup {"Mars/Olympus_Mons"}

InitConvert ==
  /\ FnInit
  /\ fnArgs \in [dateStr : TzDateStrings, fromTimezone : TzZones, toTimezone : TzZones,
                  h24 : BOOLEAN]

CallConvertTimezone ==
  /\ last = "init"
  /\ fnResult' = ConvertTimezone(fnArgs.dateStr, fnArgs.fromTimezone, fnArgs.toTimezone,
                                 fnArgs.h24)
  /\ last' = "convertTimezone"
  /\ UNCHANGED fnArgs
  /\ FnFrame

NextConvert == CallConvertTimezone

SpecConvert == InitConvert /\ [][NextConvert]_vars

(* ----------------------- MarketStatus: calculateTimeInfo --------------- *)
\* An ExchangeConfig entry.
ExchangeConfig(timezone, openHour, openMinute, closeHour, closeMinute) ==
  [timezone |-> timezone, openHour |-> openHour, openMinute |-> openMinute,
   closeHour |-> closeHour, closeMinute |-> closeMinute, tradingDays |-> 1..5]

\* The distinct hours of EXCHANGE_CONFIG and getConfigFromTimezone, one zone each.
EXCHANGE_CONFIG ==
  {ExchangeConfig("America/New_York", 9, 30, 16, 0),
   ExchangeConfig("Asia/Tokyo", 9, 0, 15, 0),
   ExchangeConfig("Europe/London", 8, 0, 16, 30),
   ExchangeConfig("Europe/Berlin", 9, 0, 17, 30),
   ExchangeConfig("Asia/Shanghai", 9, 30, 15, 0),
   ExchangeConfig("Australia/Sydney", 10, 0, 16, 0),
   ExchangeConfig("Asia/Kolkata", 9, 15, 15, 30),
   ExchangeConfig("Asia/Singapore", 9, 0, 17, 0),
   ExchangeConfig("Asia/Taipei", 9, 0, 13, 30)}

\* The zones of the table that change their UTC offset twice a year.
DstZones == {"America/New_York", "Europe/London", "Europe/Berlin", "Australia/Sydney"}

\* now.toLocaleString('en-US', {timeZone, hour: '2-digit', minute: '2-digit',
\* hour12: false}) read back with parseInt: the exchange's wall clock, the
\* hour after midnight printed as 24 on an engine with h24.
ExchangeClock(minuteOfDay, h24) ==
  LET hour == minuteOfDay \div 60
  IN  [hour |-> IF hour = 0 /\ h24 THEN 24 ELSE hour, minute |-> minuteOfDay % 60]

\* formatCountdown: <<days, hours, minutes>> for "Xd Yh Zm", <<hours, minutes>>
\* for "Yh Zm".
FormatCountdown(totalMinutes) ==
  LET hours == totalMinutes \div 60
      minutes == totalMinutes % 60
  IN  IF hours >= 24 THEN <<hours \div 24, hours % 24, minutes>> ELSE <<hours, minutes>>

\* The while loop: days from today to the next trading day, at least one.
RECURSIVE DaysUntilOpen(_, _, _)
DaysUntilOpen(tradingDays, nextDay, daysUntilOpen) ==
  IF nextDay \in tradingDays THEN daysUntilOpen
  ELSE DaysUntilOpen(tradingDays, (nextDay + 1) % 7, daysUntilOpen + 1)

\* const minutesUntilMidnight = 24 * 60 - currentExchangeMinutes
MinutesUntilMidnight(currentExchangeMinutes, openMinutes) ==
  24 * 60 - currentExchangeMinutes

\* const isOpen = isTradingDay && current >= openMinutes && current < closeMinutes
IsOpenNow(isTradingDay, current, openMinutes, closeMinutes) ==
  isTradingDay /\ current >= openMinutes /\ current < closeMinutes

\* calculateTimeInfo(config) at an instant whose exchange-local weekday is
\* exchangeDayOfWeek (0 = Sunday) and whose exchange-local time of day is
\* minuteOfDay: isOpen, isTradingDay, countdown and countdownLabel.
CalculateTimeInfo(config, exchangeDayOfWeek, minuteOfDay, h24) ==
  LET clock == ExchangeClock(minuteOfDay, h24)
      isTradingDay == exchangeDayOfWeek \in config.tradingDays
      currentExchangeMinutes == clock.hour * 60 + clock.minute
      openMinutes == config.openHour * 60 + config.openMinute
      closeMinutes == config.closeHour * 60 + config.closeMinute
      isOpen == IsOpenNow(isTradingDay, currentExchangeMinutes, openMinutes, closeMinutes)
      daysUntilOpen == DaysUntilOpen(config.tradingDays, (exchangeDayOfWeek + 1) % 7, 1)
      totalMinutes == MinutesUntilMidnight(currentExchangeMinutes, openMinutes)
                        + (daysUntilOpen - 1) * 24 * 60 + openMinutes
      info(countdown, label) ==
        [isOpen |-> isOpen, isTradingDay |-> isTradingDay,
         countdown |-> FormatCountdown(countdown), countdownLabel |-> label]
  IN  IF ~isTradingDay THEN info(totalMinutes, "until market opens")
      ELSE IF isOpen
      THEN info(closeMinutes - currentExchangeMinutes, "until market closes")
      ELSE IF currentExchangeMinutes < openMinutes
      THEN info(openMinutes - currentExchangeMinutes, "until market opens")
      ELSE info(totalMinutes, "until market opens")

\* The instants looked at: every quarter of an hour and the minute before it.
MinuteStep == 15

SampleMinutes == {m \in 0..(24 * 60 - 1) : m % MinuteStep \in {0, MinuteStep - 1}}

\* The UTC offset the zone will have at the next open minus the one it has
\* now, in minutes: not 0 only when a clock change (a Sunday, between 01:00
\* and 03:00) lies between the instant and Monday's open.
OffsetChanges(config, exchangeDayOfWeek, minuteOfDay) ==
  IF /\ config.timezone \in DstZones
     /\ \/ /\ exchangeDayOfWeek = 5
           /\ minuteOfDay >= config.closeHour * 60 + config.closeMinute
        \/ exchangeDayOfWeek = 6
        \/ exchangeDayOfWeek = 0 /\ minuteOfDay < 60
  THEN {0 - 60, 0, 60}
  ELSE {0}

InitMarket ==
  /\ FnInit
  /\ \E config \in EXCHANGE_CONFIG, day \in 0..6, m \in SampleMinutes, h24 \in BOOLEAN :
        \E change \in OffsetChanges(config, day, m) :
          fnArgs = [config |-> config, exchangeDayOfWeek |-> day, minuteOfDay |-> m,
                    h24 |-> h24, offsetChange |-> change]

CallCalculateTimeInfo ==
  /\ last = "init"
  /\ fnResult' = CalculateTimeInfo(fnArgs.config, fnArgs.exchangeDayOfWeek,
                                   fnArgs.minuteOfDay, fnArgs.h24)
  /\ last' = "calculateTimeInfo"
  /\ UNCHANGED fnArgs
  /\ FnFrame

NextMarket == CallCalculateTimeInfo

SpecMarket == InitMarket /\ [][NextMarket]_vars

(* ------------- calculateTimeInfo: the scan for the next trading day ---- *)
\* Mutant: the scan does not wrap from Saturday to Sunday.
ScanNextDay_NoWrap(nextDay) == nextDay + 1

\* nextDay = (nextDay + 1) % 7
ScanNextDay(nextDay) == (nextDay + 1) % 7

\* A profile with any non-empty set of trading days, on any weekday.
InitScan ==
  /\ FnInit
  /\ \E tradingDays \in (SUBSET (0..6)) \ {{}}, day \in 0..6 :
        fnArgs = [tradingDays |-> tradingDays, exchangeDayOfWeek |-> day]

\* let daysUntilOpen = 1; let nextDay = (exchangeDayOfWeek + 1) % 7
ScanEnter ==
  /\ last = "init"
  /\ fnResult' = [daysUntilOpen |-> 1, nextDay |-> ScanNextDay(fnArgs.exchangeDayOfWeek)]
  /\ last' = "scan"
  /\ UNCHANGED fnArgs
  /\ FnFrame

\* One pass of while (!config.tradingDays.includes(nextDay)) { ... }
ScanIterate ==
  /\ last = "scan"
  /\ fnResult.nextDay \notin fnArgs.tradingDays
  /\ fnResult' = [daysUntilOpen |-> fnResult.daysUntilOpen + 1,
                  nextDay |-> ScanNextDay(fnResult.nextDay)]
  /\ UNCHANGED <<last, fnArgs>>
  /\ FnFrame

\* The loop condition is false: the scan is over and the countdown is computed.
ScanFound ==
  /\ last = "scan"
  /\ fnResult.nextDay \in fnArgs.tradingDays
  /\ last' = "found"
  /\ UNCHANGED <<fnArgs, fnResult>>
  /\ FnFrame

NextScan ==
  \/ ScanEnter
  \/ ScanIterate
  \/ ScanFound

SpecScan == InitScan /\ [][NextScan]_vars

\* The loop is synchronous code: once entered it runs until its condition fails.
SpecScanFair == SpecScan /\ WF_vars(NextScan)

(* ------------- the page's catch blocks: what a failure starts ---------- *)
\* A failed response as handleResponseError reads it, and whether its error
\* text holds "429".
TextedResponses ==
  [status : Statuses \ {200}, rateLimitText : BOOLEAN, text522 : BOOLEAN,
   emptyHistory : BOOLEAN, delisted : BOOLEAN, text429 : BOOLEAN, hasErrorText : BOOLEAN]

\* The error handleResponseError throws for r: its class and what its
\* message, errorData.error || `HTTP ${response.status}`, includes.
ThrownError(r) ==
  LET httpOnly == ~r.hasErrorText
  IN  [cls |-> HandleResponseError(r).cls,
       rateLimitWords |-> r.rateLimitText,
       has429 |-> r.text429 \/ (httpOnly /\ r.status = 429),
       notFoundWords |-> r.delisted]

\* A response whose text fields are those of one body: without an error text
\* the message is HTTP <status> and includes none of the phrases.
OneBody(r) ==
  r.hasErrorText \/ (~r.rateLimitText /\ ~r.text522 /\ ~r.delisted /\ ~r.text429)

\* isRateLimitError: instanceof RateLimitError, or the lower-cased message
\* includes 'rate limit', 'too many requests' or '429'.
IsRateLimitError(e) == e.cls = "RateLimitError" \/ e.rateLimitWords \/ e.has429

\* isSymbolNotFoundError: instanceof SymbolNotFoundError, or the lower-cased
\* message includes 'delisted', 'no price data found', 'no data found'.
IsSymbolNotFoundError(e) == e.cls = "SymbolNotFoundError" \/ e.notFoundWords

\* isEmptyHistoryError: instanceof EmptyHistoryError.
IsEmptyHistoryError(e) == e.cls = "EmptyHistoryError"

\* The catch of the history fetch: what it does about retrying.
HistoryCatch(e) ==
  IF IsSymbolNotFoundError(e) THEN "notFound"
  ELSE IF IsEmptyHistoryError(e) THEN "emptyHistory"
  ELSE IF IsRateLimitError(e) THEN "startRetryCountdown"
  ELSE "setRetryCountdown"

\* The catch of the details fetch.
DetailsCatch(e) ==
  IF IsSymbolNotFoundError(e) THEN "notFound"
  ELSE IF IsRateLimitError(e) THEN "startRetryCountdown"
  ELSE "setRetryCountdown"

InitCatch ==
  /\ FnInit
  /\ \E r \in TextedResponses :
        /\ OneBody(r)
        /\ fnArgs = [response |-> r, err |-> ThrownError(r)]

CallHistoryCatch ==
  /\ last = "init"
  /\ fnResult' = HistoryCatch(fnArgs.err)
  /\ last' = "historyCatch"
  /\ UNCHANGED fnArgs
  /\ FnFrame

CallDetailsCatch ==
  /\ last = "init"
  /\ fnResult' = DetailsCatch(fnArgs.err)
  /\ last' = "detailsCatch"
  /\ UNCHANGED fnArgs
  /\ FnFrame

NextCatch ==
  \/ CallHistoryCatch
  \/ CallDetailsCatch

SpecCatch == InitCatch /\ [][NextCatch]_vars

(* ------------------ MarketStatus: the one-minute interval -------------- *)
\* The branch of calculateTimeInfo's if / else if chain that sets the
\* countdown.
CalculatorState(config, exchangeDayOfWeek, minuteOfDay, h24) ==
  LET clock == ExchangeClock(minuteOfDay, h24)
      currentExchangeMinutes == clock.hour * 60 + clock.minute
      openMinutes == config.openHour * 60 + config.openMinute
      closeMinutes == config.closeHour * 60 + config.closeMinute
      isTradingDay == exchangeDayOfWeek \in config.tradingDays
  IN  IF ~isTradingDay THEN "Closed-NonTradingDay"
      ELSE IF IsOpenNow(isTradingDay, currentExchangeMinutes, openMinutes, closeMinutes)
      THEN "Open"
      ELSE IF currentExchangeMinutes < openMinutes THEN "Closed-BeforeOpen"
      ELSE "Closed-AfterClose"

\* The component is mounted at some instant of the week; the engine prints
\* midnight as 00 or as 24.
InitMarketClock ==
  /\ FnInit
  /\ \E config \in EXCHANGE_CONFIG, day \in 0..6, m \in SampleMinutes, h24 \in BOOLEAN :
        fnArgs = [config |-> config, exchangeDayOfWeek |-> day, minuteOfDay |-> m,
                  h24 |-> h24]

\* useEffect: updateTimeInfo(), the initial calculation.
MarketStatusMount ==
  /\ last = "init"
  /\ fnResult' = CalculateTimeInfo(fnArgs.config, fnArgs.exchangeDayOfWeek,
                                   fnArgs.minuteOfDay, fnArgs.h24)
  /\ last' = "mount"
  /\ UNCHANGED fnArgs
  /\ FnFrame

\* setInterval(updateTimeInfo, 60000): a minute later, on the exchange's
\* clock too (no change of its UTC offset).
MarketStatusTick ==
  /\ last \in {"mount", "tick"}
  /\ LET minute == (fnArgs.minuteOfDay + 1) % (24 * 60)
         day == IF minute = 0 THEN (fnArgs.exchangeDayOfWeek + 1) % 7
                ELSE fnArgs.exchangeDayOfWeek
     IN  /\ fnArgs' = [fnArgs EXCEPT !.minuteOfDay = minute, !.exchangeDayOfWeek = day]
         /\ fnResult' = CalculateTimeInfo(fnArgs.config, day, minute, fnArgs.h24)
  /\ last' = "tick"
  /\ FnFrame

NextMarketClock ==
  \/ MarketStatusMount
  \/ MarketStatusTick

SpecMarketClock == InitMarketClock /\ [][NextMarketClock]_vars

(* ------------------------- technical indicators ------------------------ *)
\* Price sequences have at most MaxSeriesLen prices in 1..MaxValue; periods
\* run to MaxPeriod and band multipliers to MaxMultiplier.
MaxSeriesLen == 4
MaxValue == 3
MaxPeriod == 4
MaxMultiplier == 2

\* Numbers are exact fractions <<numerator, denominator>>, denominator > 0;
\* undefined is <<>>.
Frac(n, d) == <<n, d>>
FracAdd(a, b) == <<a[1] * b[2] + b[1] * a[2], a[2] * b[2]>>
FracSub(a, b) == <<a[1] * b[2] - b[1] * a[2], a[2] * b[2]>>
FracMul(a, b) == <<a[1] * b[1], a[2] * b[2]>>
FracEq(a, b) == a[1] * b[2] = b[1] * a[2]
Undefined == <<>>

\* let sum = 0; for (j = 0; j < period; j++) sum += prices[i - j];
\* i is the position in 1..Len(prices), the code's index plus one.
RECURSIVE WindowSum(_, _, _)
WindowSum(prices, i, j) ==
  IF j = 0 THEN 0 ELSE WindowSum(prices, i, j - 1) + prices[i - (j - 1)]

HasWindow_OneLate(i, period) == i > period

\* The else of if (i < period - 1): enough prices for a window ending at i.
HasWindow(i, period) == i >= period

\* calculateSMA
CalculateSMA(prices, period) ==
  [i \in 1..Len(prices) |->
     IF ~HasWindow(i, period) THEN Undefined
     ELSE Frac(WindowSum(prices, i, period), period)]

EmaStep_Unweighted(price, previousEMA, multiplier) ==
  FracMul(FracAdd(Frac(price, 1), previousEMA), Frac(1, 2))

\* prices[i] * multiplier + previousEMA * (1 - multiplier)
EmaStep(price, previousEMA, multiplier) ==
  FracAdd(FracMul(Frac(price, 1), multiplier),
          FracMul(previousEMA, FracSub(Frac(1, 1), multiplier)))

\* calculateEMA: the loop, result being what has been pushed so far.
RECURSIVE EmaLoop(_, _, _)
EmaLoop(prices, period, result) ==
  LET i == Len(result) + 1
      multiplier == Frac(2, period + 1)
  IN  IF i > Len(prices) THEN result
      ELSE IF i < period THEN EmaLoop(prices, period, Append(result, Undefined))
      ELSE IF i = period
      THEN EmaLoop(prices, period,
                   Append(result, Frac(WindowSum(prices, i, period), period)))
      ELSE IF result[i - 1] # Undefined
      THEN EmaLoop(prices, period,
                   Append(result, EmaStep(prices[i], result[i - 1], multiplier)))
      ELSE EmaLoop(prices, period, Append(result, Undefined))

CalculateEMA(prices, period) == EmaLoop(prices, period, <<>>)

RECURSIVE SumOf(_)
SumOf(values) == IF values = <<>> THEN 0 ELSE Head(values) + SumOf(Tail(values))

RECURSIVE FracSumOf(_)
FracSumOf(values) ==
  IF values = <<>> THEN Frac(0, 1) ELSE FracAdd(Head(values), FracSumOf(Tail(values)))

VarianceDivisor_Sample(n) == IF n > 1 THEN n - 1 ELSE n

\* ... / n of the variance.
VarianceDivisor(n) == n

\* calculateStandardDeviation up to its Math.sqrt: the variance whose square
\* root it returns.
Variance(values) ==
  LET n == Len(values)
      mean == Frac(SumOf(values), n)
      squaredDiffs == [k \in 1..n |->
                         FracMul(FracSub(Frac(values[k], 1), mean),
                                 FracSub(Frac(values[k], 1), mean))]
  IN  IF n = 0 THEN Frac(0, 1)
      ELSE FracMul(FracSumOf(squaredDiffs), Frac(1, VarianceDivisor(n)))

\* middleValue + stdDev * factor, with stdDev = sqrt(variance) kept as is.
BandValue(middleValue, variance, factor) ==
  [middle |-> middleValue, variance |-> variance, factor |-> factor]

\* calculateBollingerBands
CalculateBollingerBands(prices, period, standardDeviations) ==
  LET middle == CalculateSMA(prices, period)
      band(i, sign) ==
        IF i < period \/ middle[i] = Undefined THEN Undefined
        ELSE BandValue(middle[i], Variance(SubSeq(prices, i - period + 1, i)),
                       sign * standardDeviations)
  IN  [upper |-> [i \in 1..Len(prices) |-> band(i, 1)],
       middle |-> middle,
       lower |-> [i \in 1..Len(prices) |-> band(i, 0 - 1)]]

InitIndicators ==
  /\ FnInit
  /\ fnArgs \in [prices : UNION {[1..n -> 1..MaxValue] : n \in 0..MaxSeriesLen},
                  period : 1..MaxPeriod,
                  standardDeviations : 1..MaxMultiplier]

CallCalculateSMA ==
  /\ last = "init"
  /\ fnResult' = CalculateSMA(fnArgs.prices, fnArgs.period)
  /\ last' = "calculateSMA"
  /\ UNCHANGED fnArgs
  /\ FnFrame

CallCalculateEMA ==
  /\ last = "init"
  /\ fnResult' = CalculateEMA(fnArgs.prices, fnArgs.period)
  /\ last' = "calculateEMA"
  /\ UNCHANGED fnArgs
  /\ FnFrame

CallCalculateBollingerBands ==
  /\ last = "init"
  /\ fnResult' = CalculateBollingerBands(fnArgs.prices, fnArgs.period,
                                         fnArgs.standardDeviations)
  /\ last' = "calculateBollingerBands"
  /\ UNCHANGED fnArgs
  /\ FnFrame

NextIndicators ==
  \/ CallCalculateSMA
  \/ CallCalculateEMA
  \/ CallCalculateBollingerBands

SpecIndicators == InitIndicators /\ [][NextIndicators]_vars

(* ----------------------- chat history logger plugin -------------------- *)
\* messageData holds at most MaxEntries entries over its life, at most
\* MaxIdleHandlers session.idle handlers are suspended at a time, and a
\* message has the parts 0..MaxPartIndex.
MaxEntries == 4
MaxIdleHandlers == 2
MaxPartIndex == 1
MessageIds == {"m1", "m2"}
PartTexts == {"", "a"}

LoggerFrame ==
  UNCHANGED <<rlVars, rlObs, arVars, arObs, pgVars, serverWait, fwVars, mgVars, hmVars,
              fnVars, ivVars>>

NoParts == [k \in 0..MaxPartIndex |-> ""]

\* messageData.has(id)
MapHas(id) == \E i \in 1..Len(messageData) : messageData[i].live /\ messageData[i].id = id

\* messageData.set(id, { role, parts: new Map(), logged: false }) for a new key
MapSetNew(id) ==
  Append(messageData, [id |-> id, parts |-> NoParts, live |-> TRUE])

\* What is left of an entry that was deleted: the place it held in the
\* insertion order, for the iterations that are under way.
Deleted == [id |-> "", parts |-> NoParts, live |-> FALSE]

\* messageData.delete(id)
MapDelete(id) ==
  [i \in 1..Len(messageData) |->
     IF messageData[i].id = id THEN Deleted ELSE messageData[i]]

\* messageData.clear() by handler h; the places are kept while another
\* handler is iterating.
MapClear(h) ==
  IF \A g \in 1..MaxIdleHandlers : g # h => idleHandlers[g].phase = "none"
  THEN <<>>
  ELSE [i \in 1..Len(messageData) |-> Deleted]

\* sortedParts: the texts of the parts a message has, by part index.
SortedParts(parts) ==
  SelectSeq([k \in 1..(MaxPartIndex + 1) |-> parts[k - 1]], LAMBDA t : t # "")

MarkLogged_AfterAppend(logged, id) == logged

\* loggedMessages.add(messageID), before the await of appendToFile
MarkLogged(logged, id) == logged \cup {id}

NoHandler == [phase |-> "none", pos |-> 0, id |-> ""]

\* The entry the for-of loop over messageData.entries() stops at from position
\* pos on: the first live one whose id is not in loggedMessages; 0 if none.
FirstPending(pos) ==
  LET pending == {i \in pos..Len(messageData) :
                    messageData[i].live /\ messageData[i].id \notin loggedMessages}
  IN  IF pending = {} THEN 0 ELSE CHOOSE i \in pending : \A k \in pending : i <= k

\* The session.idle branch from position pos of the iteration up to its next
\* await: logMessage up to the await of appendToFile, or the end of the loop
\* and messageData.clear().
RunIdleLoop(h, pos) ==
  LET i == FirstPending(pos)
  IN  IF i = 0
      THEN /\ messageData' = MapClear(h)
           /\ idleHandlers' = [idleHandlers EXCEPT ![h] = NoHandler]
           /\ UNCHANGED loggedMessages
      ELSE LET data == messageData[i]
               content == SortedParts(data.parts)
           IN  IF content = <<>>
               THEN /\ idleHandlers' =
                         [idleHandlers EXCEPT ![h] = [NoHandler EXCEPT !.phase = "loop",
                                                                      !.pos = i + 1]]
                    /\ UNCHANGED <<messageData, loggedMessages>>
               ELSE /\ loggedMessages' = MarkLogged(loggedMessages, data.id)
                    /\ idleHandlers' =
                         [idleHandlers EXCEPT ![h] =
                            [phase |-> IF logFileExists THEN "append" ELSE "header",
                             pos |-> i + 1, id |-> data.id]]
                    /\ UNCHANGED messageData

InitLogger ==
  /\ RLInit(FALSE)
  /\ ARInit(FALSE, FALSE, FALSE, FALSE)
  /\ PageInit(FALSE)
  /\ HandoffInit /\ FetchOff /\ MergeOff /\ HomeInit(FALSE) /\ FnOff /\ IntervalOff
  /\ messageData = <<>>
  /\ loggedMessages = {}
  /\ stateFileExists = TRUE
  /\ idleHandlers = [h \in 1..MaxIdleHandlers |-> NoHandler]
  /\ logFile = <<>>
  /\ logFileExists \in BOOLEAN
  /\ appendCalls = <<>>
  /\ last = "init"

\* event: message.updated
MessageUpdated ==
  \E id \in MessageIds :
    /\ stateFileExists
    /\ MapHas(id) \/ Len(messageData) < MaxEntries
    /\ messageData' = IF MapHas(id) THEN messageData ELSE MapSetNew(id)
    /\ last' = "message.updated"
    /\ UNCHANGED <<loggedMessages, stateFileExists, idleHandlers, logFile, logFileExists,
                   appendCalls>>
    /\ LoggerFrame

\* event: message.part.updated; usable is a text part that is neither
\* synthetic nor ignored, text its trimmed text.
MessagePartUpdated ==
  \E id \in MessageIds, usable \in BOOLEAN, text \in PartTexts, index \in 0..MaxPartIndex :
    /\ stateFileExists
    /\ MapHas(id) \/ Len(messageData) < MaxEntries
    /\ messageData' =
         IF ~usable \/ text = "" THEN messageData
         ELSE LET md == IF MapHas(id) THEN messageData ELSE MapSetNew(id)
              IN  [i \in 1..Len(md) |->
                     IF md[i].live /\ md[i].id = id
                     THEN [md[i] EXCEPT !.parts[index] = text]
                     ELSE md[i]]
    /\ last' = "message.part.updated"
    /\ UNCHANGED <<loggedMessages, stateFileExists, idleHandlers, logFile, logFileExists,
                   appendCalls>>
    /\ LoggerFrame

\* event: session.idle, up to its first await or to its end.
SessionIdle ==
  \E h \in 1..MaxIdleHandlers :
    /\ stateFileExists
    /\ idleHandlers[h].phase = "none"
    /\ \A g \in 1..(h - 1) : idleHandlers[g].phase # "none"
    /\ RunIdleLoop(h, 1)
    /\ last' = "session.idle"
    /\ UNCHANGED <<stateFileExists, logFile, logFileExists, appendCalls>>
    /\ LoggerFrame

\* await logMessage(messageID) resumes the loop.
IdleResume ==
  \E h \in 1..MaxIdleHandlers :
    /\ idleHandlers[h].phase = "loop"
    /\ RunIdleLoop(h, idleHandlers[h].pos)
    /\ last' = "resume"
    /\ UNCHANGED <<stateFileExists, logFile, logFileExists, appendCalls>>
    /\ LoggerFrame

\* appendToFile: await writeFile(filePath, header) is done.
HeaderWritten ==
  \E h \in 1..MaxIdleHandlers :
    /\ idleHandlers[h].phase = "header"
    /\ logFile' = <<>>
    /\ logFileExists' = TRUE
    /\ idleHandlers' = [idleHandlers EXCEPT ![h].phase = "append"]
    /\ last' = "writeFile"
    /\ UNCHANGED <<messageData, loggedMessages, stateFileExists, appendCalls>>
    /\ LoggerFrame

\* appendToFile: await appendFile(filePath, content) is done; logMessage
\* goes on to messageData.delete(messageID) and returns.
MessageAppended ==
  \E h \in 1..MaxIdleHandlers :
    /\ idleHandlers[h].phase = "append"
    /\ logFile' = Append(logFile, idleHandlers[h].id)
    /\ logFileExists' = TRUE
    /\ appendCalls' = Append(appendCalls, idleHandlers[h].id)
    /\ messageData' = MapDelete(idleHandlers[h].id)
    /\ idleHandlers' =
         [idleHandlers EXCEPT ![h] = [NoHandler EXCEPT !.phase = "loop",
                                                      !.pos = idleHandlers[h].pos]]
    /\ last' = "appendFile"
    /\ UNCHANGED <<loggedMessages, stateFileExists>>
    /\ LoggerFrame

\* writeFile or appendFile rejects: the handler's catch logs the error.
WriteFailed ==
  \E h \in 1..MaxIdleHandlers :
    /\ idleHandlers[h].phase \in {"header", "append"}
    /\ idleHandlers' = [idleHandlers EXCEPT ![h] = NoHandler]
    /\ last' = "catch"
    /\ UNCHANGED <<messageData, loggedMessages, stateFileExists, logFile, logFileExists,
                   appendCalls>>
    /\ LoggerFrame

\* The state file is removed or created again: isEnabled() changes.
ToggleLogging ==
  /\ stateFileExists' = ~stateFileExists
  /\ last' = "toggle"
  /\ UNCHANGED <<messageData, loggedMessages, idleHandlers, logFile, logFileExists,
                 appendCalls>>
  /\ LoggerFrame

NextLogger ==
  \/ MessageUpdated
  \/ MessagePartUpdated
  \/ SessionIdle
  \/ IdleResume
  \/ HeaderWritten
  \/ MessageAppended
  \/ WriteFailed
  \/ ToggleLogging

SpecLogger == InitLogger /\ [][NextLogger]_vars

(* ------------- the logger plugin: the role written for a message ------- *)
\* fnArgs is the role each message has (the role every message.updated event
\* of the message reports); fnResult is the set of messages whose
\* message.updated event has arrived since the last session.idle. No write fails and the handlers of two
\* session.idle events do not overlap.
Roles == {"user", "assistant"}

\* const roleLabel = data.role === "user" ? "User" : "Assistant"
RoleLabel(role) == IF role = "user" THEN "User" ELSE "Assistant"

\* messageData.set(id, { role, parts: new Map(), logged: false }) for a new key
MapSetRole(id, role) ==
  Append(messageData, [id |-> id, role |-> role, parts |-> NoParts, live |-> TRUE])

\* The for-of loop of session.idle from entry i on: logMessage for each entry
\* that is not in loggedMessages; what it adds to loggedMessages and to the file.
RECURSIVE LogPending(_, _, _)
LogPending(i, logged, file) ==
  IF i > Len(messageData) THEN [logged |-> logged, file |-> file]
  ELSE LET data == messageData[i]
       IN  IF data.id \in logged \/ SortedParts(data.parts) = <<>>
           THEN LogPending(i + 1, logged, file)
           ELSE LogPending(i + 1, MarkLogged(logged, data.id),
                           Append(file, [id |-> data.id, roleLabel |-> RoleLabel(data.role),
                                         updated |-> data.id \in fnResult]))

RoleFrame ==
  UNCHANGED <<rlVars, rlObs, arVars, arObs, pgVars, serverWait, fwVars, mgVars, hmVars,
              ivVars, stateFileExists, idleHandlers, logFileExists, appendCalls, fnArgs>>

InitLoggerRoles ==
  /\ RLInit(FALSE)
  /\ ARInit(FALSE, FALSE, FALSE, FALSE)
  /\ PageInit(FALSE)
  /\ HandoffInit /\ FetchOff /\ MergeOff /\ HomeInit(FALSE) /\ IntervalOff
  /\ fnArgs \in [MessageIds -> Roles]
  /\ fnResult = {}
  /\ messageData = <<>>
  /\ loggedMessages = {}
  /\ stateFileExists = TRUE
  /\ idleHandlers = [h \in 1..MaxIdleHandlers |-> NoHandler]
  /\ logFile = <<>>
  /\ logFileExists = TRUE
  /\ appendCalls = <<>>
  /\ last = "init"

\* event: message.updated, with info.role the role of the message
RoleMessageUpdated ==
  \E id \in MessageIds :
    /\ messageData' = IF MapHas(id) THEN messageData ELSE MapSetRole(id, fnArgs[id])
    /\ fnResult' = fnResult \cup {id}
    /\ last' = "message.updated"
    /\ UNCHANGED <<loggedMessages, logFile>>
    /\ RoleFrame

\* event: message.part.updated
RoleMessagePartUpdated ==
  \E id \in MessageIds, usable \in BOOLEAN, text \in PartTexts, index \in 0..MaxPartIndex :
    /\ messageData' =
         IF ~usable \/ text = "" THEN messageData
         ELSE LET md == IF MapHas(id) THEN messageData ELSE MapSetRole(id, "assistant")
              IN  [i \in 1..Len(md) |->
                     IF md[i].id = id THEN [md[i] EXCEPT !.parts[index] = text] ELSE md[i]]
    /\ last' = "message.part.updated"
    /\ UNCHANGED <<loggedMessages, logFile, fnResult>>
    /\ RoleFrame

\* event: session.idle: every pending message is logged, then messageData.clear()
RoleSessionIdle ==
  LET done == LogPending(1, loggedMessages, logFile)
  IN  /\ loggedMessages' = done.logged
      /\ logFile' = done.file
      /\ messageData' = <<>>
      /\ fnResult' = {}
      /\ last' = "session.idle"
      /\ RoleFrame

NextLoggerRoles ==
  \/ RoleMessageUpdated
  \/ RoleMessagePartUpdated
  \/ RoleSessionIdle

SpecLoggerRoles == InitLoggerRoles /\ [][NextLoggerRoles]_vars

(* ------------ either controller, each in a component of its own -------- *)
Init == InitRetry \/ InitRefresh

Next == NextRetry \/ NextRefresh

Spec == Init /\ [][Next]_vars

(* ============================ properties =============================== *)

\* ceil(w) + 1 seconds for a wait of w tenths, stated without the code's arithmetic:
\* the least whole number of seconds not below the wait, plus one; 61 when the
\* server gave no wait.
ExpectedTotal(w) ==
  IF w = <<>> THEN 61
  ELSE 1 + CHOOSE n \in 0..w[1] : n * 10 >= w[1] /\ (n = 0 \/ (n - 1) * 10 < w[1])

\* C1: whenever the controller is (committed) CountingDown -- also when
\* startCountdown was called while a countdown was already active -- exactly one
\* one-second interval timer is live, so the countdown proceeds to Idle and the
\* retry callback runs.
C1_RestartKeepsCountingDown ==
  (rlMounted /\ isRateLimited /\ rlCommitted) => Cardinality(rlTimers) = 1

\* C2: from Idle, startCountdown(w) gives CountingDown with secondsRemaining =
\* ceil(w)+1; every tick takes exactly one second off; after exactly ceil(w)+1
\* ticks with no other operation the timer is cleared, the state is Idle with
\* secondsRemaining 0, and the retry callback runs exactly once, in a later turn
\* than the final tick.
C2_CountdownRunsToCompletion ==
  rlClean =>
    /\ rlTicks <= ExpectedTotal(rlWait)
    /\ rlSecondsRemaining = ExpectedTotal(rlWait) - rlTicks
    /\ isRateLimited <=> (rlTicks < ExpectedTotal(rlWait))
    /\ isRateLimited => (rlFired = 0 /\ rlTimeouts = <<>>)
    /\ (isRateLimited /\ rlCommitted) => Cardinality(rlTimers) = 1
    /\ ~isRateLimited => (rlTimers = {} /\ rlIntervalRef = 0 /\ rlFired + Len(rlTimeouts) = 1)
    /\ (last = "tick") => rlFired = 0

C2_Witness ==
  /\ rlClean
  /\ last = "retry"
  /\ rlWait = <<50>>
  /\ rlTicks = 6
  /\ rlFired = 1
  /\ ~isRateLimited

\* C3: cancel() or reset() in any state leaves the controller Idle with
\* secondsRemaining = 0 and no live timer, and the retry callback is not run
\* afterwards until a later startCountdown has run to completion.
C3_CancelSilencesRetry ==
  /\ [](last \in {"cancel", "reset"} =>
          (~isRateLimited /\ rlSecondsRemaining = 0 /\ rlTimers = {} /\ rlIntervalRef = 0))
  /\ [][rlCancelled => last' # "retry"]_vars

\* C4: each controller instance owns at most one live interval timer, and it is
\* the one its intervalRef holds.
C4_AtMostOneTimer ==
  /\ Cardinality(rlTimers) <= 1
  /\ Cardinality(arTimers) <= 1
  /\ rlTimers \subseteq {rlIntervalRef}
  /\ {t.id : t \in arTimers} \subseteq {arIntervalRef}

C4_Witness ==
  /\ last = "arRender"
  /\ Cardinality(arTimers) = 1
  /\ arSecondsRemaining < IntervalSeconds
  /\ isLoading

C6_OneRefreshPerCycle ==
  /\ [](last = "init" => arSecondsRemaining = IntervalSeconds)
  /\ [](arFired <= 1)
  /\ [][(last' = "arTick" /\ enabled /\ ~isPaused /\ ~isLoading) =>
          IF arSecondsRemaining > 1
          THEN arSecondsRemaining' = arSecondsRemaining - 1 /\ arFired' = arFired
          ELSE arSecondsRemaining' = 0 /\ arFired' = arFired + 1 /\ isRefreshing']_vars
  /\ [][(last' \in {"arRender", "toggleOn", "toggleOff"} /\ isRefreshing /\ ~isLoading') =>
          (arSecondsRemaining' = IntervalSeconds /\ ~isRefreshing' /\ arFired' = 0)]_vars

C6_Witness ==
  /\ last = "arTick"
  /\ arFired = 1
  /\ arSecondsRemaining = 0
  /\ isRefreshing
  /\ enabled /\ ~isPaused /\ ~isLoading

AROff == ~enabled \/ isPaused

\* C8 (as stated): switching off clears the timer, nothing ticks or fires while
\* off, and switching on again restarts the countdown from intervalSeconds.
C8_ToggleOnRestartsFresh ==
  /\ [](AROff => (arTimers = {} /\ arIntervalRef = 0))
  /\ [][AROff => (last' # "arTick" /\ arFired' <= arFired)]_vars
  /\ [][last' = "toggleOn" =>
          (Cardinality(arTimers') = 1 /\ arSecondsRemaining' = IntervalSeconds)]_vars

\* C8 (amended): switching off clears the timer, nothing ticks or fires while
\* off, and switching on again starts one new timer and leaves the counter at the
\* value it had, unless that commit also performs the loading-complete reset.
C8_ToggleOnResumes ==
  /\ [](AROff => (arTimers = {} /\ arIntervalRef = 0))
  /\ [][AROff => (last' # "arTick" /\ arFired' <= arFired)]_vars
  /\ [][last' = "toggleOn" =>
          /\ Cardinality(arTimers') = 1
          /\ arSecondsRemaining' =
               IF isRefreshing /\ ~isLoading' THEN IntervalSeconds ELSE arSecondsRemaining]_vars

C8_Witness ==
  /\ last = "toggleOn"
  /\ Cardinality(arTimers) = 1
  /\ arSecondsRemaining > 0
  /\ arSecondsRemaining < IntervalSeconds

\* C9: resetCountdown in any state sets the counter to intervalSeconds and
\* isRefreshing to false, invokes no refresh, and leaves the timer as it was.
C9_ManualResetFrame ==
  [][last' = "resetCountdown" =>
       /\ arSecondsRemaining' = IntervalSeconds
       /\ ~isRefreshing'
       /\ arFired' = 0
       /\ arTimers' = arTimers
       /\ arIntervalRef' = arIntervalRef
       /\ <<enabled', isPaused', isLoading'>> = <<enabled, isPaused, isLoading>>]_vars

C9_Witness ==
  /\ last = "resetCountdown"
  /\ arSecondsRemaining = IntervalSeconds
  /\ arCommittedRefreshing
  /\ ~isRefreshing
  /\ isLoading
  /\ arTimers # {}

\* C10: on the asset detail page, in every state where the page has rendered
\* with isRateLimited true (and so passes isPaused = true to the auto-refresh
\* hook), no auto-refresh interval is live and no step invokes the auto-refresh
\* callback (the only place that sets the hook's isRefreshing).
C10_RetryPausesAutoRefresh ==
  /\ [](rlCommitted => arTimers = {})
  /\ [][(rlCommitted \/ isRateLimited) => ~(~isRefreshing /\ isRefreshing')]_vars

C10_Witness ==
  /\ rlMounted /\ arMounted
  /\ isRateLimited /\ rlCommitted
  /\ rlTimers # {}
  /\ arTimers = {}
  /\ isPaused
  /\ hasHistory
  /\ arSecondsRemaining < IntervalSeconds

(* ------------------------- SyncOrchestrator ---------------------------- *)
\* C11: while the page has no history data, the automatic attempt started by the
\* completion of the rate-limit countdown (the deferred retry runs) or by the
\* fixed-delay retry countdown reaching 0 (the commit that sees 0) is a full
\* refresh: it increments refreshKey and not autoRefreshKey.
C11_RetryWithoutDataIsFull ==
  [][(/\ ~hasHistory
      /\ \/ Len(rlTimeouts') < Len(rlTimeouts)
         \/ cmRetryCountdown # <<0>> /\ cmRetryCountdown' = <<0>>)
       => (refreshKeyBumped' /\ (autoRefreshKeyBumped' => autoRefreshKeyBumped))]_vars

\* C12: with history data present, the step in which the auto-refresh interval
\* invokes its callback increments autoRefreshKey only, and no commit issues a
\* history or details request unless refreshKey or isManualRefresh changed: an
\* auto-refresh tick leads to the lightweight request alone.
C12_AutoTickIsLightweight ==
  /\ [][(hasHistory /\ ~isRefreshing /\ isRefreshing') =>
          /\ autoRefreshKeyBumped'
          /\ refreshKeyBumped' = refreshKeyBumped
          /\ isManualRefresh' = isManualRefresh
          /\ historyInFlight' = historyInFlight
          /\ detailsInFlight' = detailsInFlight]_vars
  /\ [][(~refreshKeyBumped /\ isManualRefresh = cmManual) =>
          /\ historyInFlight' <= historyInFlight
          /\ detailsInFlight' <= detailsInFlight]_vars

C12_Witness ==
  /\ hasHistory /\ cmHasHistory
  /\ isRefreshing
  /\ arSecondsRemaining = 0
  /\ autoRefreshKeyBumped
  /\ ~refreshKeyBumped
  /\ historyInFlight = 0 /\ detailsInFlight = 0

\* C13: when a rate-limit response is handed to the retry controller, the
\* countdown starts at ceil(w)+1 if the server reported the wait w, and at
\* defaultDelay+1 = 61 if the response carried no wait.
C13_HandoffUsesServerWait ==
  (last = "handoff") =>
    /\ isRateLimited
    /\ rlSecondsRemaining =
         IF serverWait = <<>> THEN DEFAULT_RETRY_DELAY_SECONDS + 1
         ELSE ExpectedTotal(serverWait)

\* C14: in every view, isRateLimited goes from true to false only in the
\* countdown's own final tick or through a manual refresh (the asset page's
\* handleRefresh(true); on the home page, any step after the user refreshed
\* during this countdown); no other step, in particular none that follows the
\* success of a request, clears it.
C14_OnlyManualOrCompletionClears ==
  [][(isRateLimited /\ ~isRateLimited') =>
       \/ Len(rlTimeouts') > Len(rlTimeouts)
       \/ ~refreshKeyBumped /\ refreshKeyBumped' /\ isManualRefresh'
       \/ hmManualSince]_vars

\* C15: when a lightweight refresh settles while the chart presents the
\* history, the history, both error fields and the details stay as they were
\* and the chart still presents the history afterwards, whatever the outcome
\* of the refresh (a rate limit included).
C15_RefreshFailureKeepsChart ==
  [][(refreshInFlight' < refreshInFlight /\ ChartPresents = "chart")
       => /\ ChartPresents' = "chart"
          /\ hasHistory' = hasHistory
          /\ historyError' = historyError
          /\ detailsError' = detailsError]_vars

\* C16: fetchWithRetry makes at most MAX_RETRIES + 1 attempts, sleeping
\* RETRY_DELAY_MS before each attempt after the first; an attempt is followed
\* by another one only if it failed with a ServerTimeoutError; a success ends
\* the call at once; what is raised is the last attempt's error; and a call
\* whose attempts all failed with ServerTimeoutError raises only after
\* MAX_RETRIES + 1 attempts.
C16_FetchWithRetry ==
  /\ Len(fwResults) <= MAX_RETRIES + 1
  /\ \A i \in 1..Len(fwResults) - 1 : fwResults[i].cls = "ServerTimeoutError"
  /\ \A i \in 1..Len(fwDelayMs) : fwDelayMs[i] = RETRY_DELAY_MS
  /\ fwPc \in {"returned", "raised"} => Len(fwDelayMs) = Len(fwResults) - 1
  /\ fwPc = "returned" => fwResults[Len(fwResults)] = FetchReturned
  /\ fwPc = "raised" =>
        /\ fwRaised = <<fwResults[Len(fwResults)]>>
        /\ fwRaised[1].cls = "ServerTimeoutError" => Len(fwResults) = MAX_RETRIES + 1

\* C17: the step in which the history or the details request fails with
\* SymbolNotFound or EmptyHistory (the error field takes that failure's
\* message) changes neither the rate-limit countdown nor the fixed-delay
\* retry countdown.
C17_TerminalFailureSchedulesNothing ==
  [][(\/ /\ historyInFlight' < historyInFlight
         /\ historyError' \in {"notFound", "emptyHistory"}
         /\ historyError' # historyError
      \/ /\ detailsInFlight' < detailsInFlight
         /\ detailsError' \in {"notFound", "emptyHistory"}
         /\ detailsError' # detailsError)
       => UNCHANGED <<rlVars, retryCountdown, retryTimer>>]_vars

\* C18: the step in which the history or the details request fails with an
\* unclassified error schedules the retry RETRY_DELAY seconds ahead, and a
\* scheduled retry that has not been issued yet is withdrawn only by a manual
\* refresh, whatever the other request of the view does meanwhile.
C18_ScheduledRetrySurvives ==
  [][LET historyFailed == /\ historyInFlight' < historyInFlight
                          /\ historyError' = "generic"
                          /\ historyError # "generic"
         detailsFailed == /\ detailsInFlight' < detailsInFlight
                          /\ detailsError' = "generic"
                          /\ detailsError # "generic"
         withdrawn == /\ historyError = "generic" \/ detailsError = "generic"
                      /\ retryCountdown # <<>>
                      /\ retryCountdown # <<0>>
                      /\ retryCountdown' = <<>>
     IN  /\ (historyFailed \/ detailsFailed)
               => (isRateLimited' \/ retryCountdown' = <<RETRY_DELAY>>)
         /\ withdrawn => (isManualRefresh' /\ ~isManualRefresh)]_vars

\* C19: the stored history series is strictly ascending by timestamp, hence
\* without repeated timestamps, after any sequence of full-history responses
\* and lightweight merges.
C19_SeriesStrictlyAscending == StrictlyAscending(historyData)

\* C19 witness: a merge of an unsorted batch with a repeated timestamp into a
\* non-empty series has changed the series.
C19_Witness ==
  /\ last = "merge"
  /\ mergeBefore # <<>>
  /\ historyData # mergeBefore
  /\ Len(historyData) > Len(mergeBefore)
  /\ \E i, j \in 1..Len(mergeIncoming) :
        i < j /\ mergeIncoming[i].timestamp > mergeIncoming[j].timestamp
  /\ \E i, j \in 1..Len(mergeIncoming) :
        i < j /\ mergeIncoming[i].timestamp = mergeIncoming[j].timestamp

\* C20 as stated: after a merge of any batch, whatever the series was (the
\* empty one included), the series has exactly the timestamps of the
\* previous series and of the batch, holds the batch's last candle for every
\* timestamp of the batch and the previous candle for every other timestamp.
C20_MergeIsOverlay ==
  (last = "merge") =>
    LET Timestamps(series) == {series[i].timestamp : i \in 1..Len(series)}
        LastOf(series, t) ==
          series[CHOOSE i \in 1..Len(series) :
                   /\ series[i].timestamp = t
                   /\ \A j \in i + 1..Len(series) : series[j].timestamp # t]
    IN  /\ Timestamps(historyData) = Timestamps(mergeBefore) \cup Timestamps(mergeIncoming)
        /\ \A i \in 1..Len(historyData) :
              historyData[i] =
                IF historyData[i].timestamp \in Timestamps(mergeIncoming)
                THEN LastOf(mergeIncoming, historyData[i].timestamp)
                ELSE LastOf(mergeBefore, historyData[i].timestamp)

\* C20 amended: the same for a non-empty previous series; an empty series
\* stays empty and the batch is dropped.
C20_MergeIsOverlayUnlessEmpty ==
  (last = "merge") =>
    LET Timestamps(series) == {series[i].timestamp : i \in 1..Len(series)}
        LastOf(series, t) ==
          series[CHOOSE i \in 1..Len(series) :
                   /\ series[i].timestamp = t
                   /\ \A j \in i + 1..Len(series) : series[j].timestamp # t]
    IN  IF mergeBefore = <<>>
        THEN historyData = <<>>
        ELSE /\ Timestamps(historyData) =
                  Timestamps(mergeBefore) \cup Timestamps(mergeIncoming)
             /\ \A i \in 1..Len(historyData) :
                   historyData[i] =
                     IF historyData[i].timestamp \in Timestamps(mergeIncoming)
                     THEN LastOf(mergeIncoming, historyData[i].timestamp)
                     ELSE LastOf(mergeBefore, historyData[i].timestamp)

\* C20 witness: a batch that repeats a timestamp with two prices, overwrites a
\* candle of the series and adds a timestamp has been merged into a series
\* that keeps another candle.
C20_Witness ==
  /\ last = "merge"
  /\ mergeBefore # <<>>
  /\ \E i, j \in 1..Len(mergeIncoming) :
        /\ i < j
        /\ mergeIncoming[i].timestamp = mergeIncoming[j].timestamp
        /\ mergeIncoming[i].price # mergeIncoming[j].price
        /\ \E k \in 1..Len(mergeBefore) :
              /\ mergeBefore[k].timestamp = mergeIncoming[i].timestamp
              /\ mergeBefore[k].price # mergeIncoming[j].price
  /\ Len(historyData) > Len(mergeBefore)
  /\ \E k \in 1..Len(mergeBefore) :
        \A i \in 1..Len(mergeIncoming) : mergeIncoming[i].timestamp # mergeBefore[k].timestamp

\* C21: merging an empty batch, merging the stored series into itself, and
\* merging a batch a second time each leave the series as it was.
C21_MergeIdempotent ==
  /\ (last = "merge" /\ mergeIncoming = <<>>) => historyData = mergeBefore
  /\ last = "self" => historyData = mergeBefore
  /\ last = "again" => historyData = mergeBefore

\* C21 witness: an out-of-order batch that repeats a timestamp with two
\* prices has been merged a second time into a non-empty series.
C21_Witness ==
  /\ last = "again"
  /\ historyData # <<>>
  /\ \E i, j \in 1..Len(mergeIncoming) :
        /\ i < j
        /\ mergeIncoming[i].timestamp = mergeIncoming[j].timestamp
        /\ mergeIncoming[i].price # mergeIncoming[j].price
  /\ \E i, j \in 1..Len(mergeIncoming) :
        i < j /\ mergeIncoming[i].timestamp > mergeIncoming[j].timestamp

\* C22: convertTimezone returns its input when the two zones are the same,
\* whatever the input, and when the input is a date without a time of day,
\* whatever the zones.
C22_SameZoneOrDateOnlyUnchanged ==
  (last = "convertTimezone"
     /\ (fnArgs.fromTimezone = fnArgs.toTimezone \/ fnArgs.dateStr.time = <<>>))
    => fnResult = fnArgs.dateStr

\* C22 witness: a date and time has been converted from a zone to itself.
C22_Witness ==
  /\ last = "convertTimezone"
  /\ fnArgs.fromTimezone = fnArgs.toTimezone
  /\ fnArgs.fromTimezone = "Asia/Hong_Kong"
  /\ fnArgs.dateStr.time = <<9, 30>>
  /\ fnResult = fnArgs.dateStr

\* C23: for a date and time x and two different known zones, on an engine
\* that prints the hour after midnight as 00, convertTimezone returns the
\* wall clock the target zone shows at the instant at which the source zone
\* shows x, with the hour in 0..23.
C23_ConvertsWallClock ==
  (/\ last = "convertTimezone"
   /\ fnArgs.dateStr.time # <<>>
   /\ fnArgs.fromTimezone # fnArgs.toTimezone
   /\ KnownZone(fnArgs.fromTimezone) /\ KnownZone(fnArgs.toTimezone)
   /\ ~fnArgs.h24)
    => LET x == fnArgs.dateStr
           instant == DateUTC(x.date[1], x.date[2], x.date[3], x.time[1], x.time[2])
                        - ZoneOffsets[fnArgs.fromTimezone]
           shown == FormatToParts(fnArgs.toTimezone, instant, FALSE)
       IN  /\ fnResult.date = <<shown.year, shown.month, shown.day>>
           /\ fnResult.time = <<shown.hour, shown.minute>>
           /\ fnResult.time[1] \in 0..23

\* C24: when the source or the target zone id is unknown to Intl (and the two
\* ids differ), convertTimezone returns its input.
C24_UnknownZoneReturnsInput ==
  (/\ last = "convertTimezone"
   /\ ~KnownZone(fnArgs.fromTimezone) \/ ~KnownZone(fnArgs.toTimezone))
    => fnResult = fnArgs.dateStr

\* C24 witness: a date and time has been converted to an unknown zone.
C24_Witness ==
  /\ last = "convertTimezone"
  /\ fnArgs.dateStr.time = <<9, 30>>
  /\ fnArgs.fromTimezone = "America/New_York"
  /\ ~KnownZone(fnArgs.toTimezone)
  /\ fnResult = fnArgs.dateStr

\* C25: calculateTimeInfo says isTradingDay exactly when the exchange-local
\* weekday is a trading day and isOpen exactly when moreover
\* open <= now < close; while open the countdown is close - now, until the
\* close; on a trading day before the open it is open - now, until the open.
C25_OpenAndSameDayCountdown ==
  (last = "calculateTimeInfo") =>
    LET config == fnArgs.config
        nowMinutes == fnArgs.minuteOfDay
        openMinutes == config.openHour * 60 + config.openMinute
        closeMinutes == config.closeHour * 60 + config.closeMinute
        tradingDay == fnArgs.exchangeDayOfWeek \in config.tradingDays
        open == tradingDay /\ openMinutes <= nowMinutes /\ nowMinutes < closeMinutes
    IN  /\ fnResult.isTradingDay = tradingDay
        /\ fnResult.isOpen = open
        /\ open => /\ fnResult.countdown = FormatCountdown(closeMinutes - nowMinutes)
                   /\ fnResult.countdownLabel = "until market closes"
        /\ (tradingDay /\ nowMinutes < openMinutes)
             => /\ fnResult.countdown = FormatCountdown(openMinutes - nowMinutes)
                /\ fnResult.countdownLabel = "until market opens"

\* C26: when the exchange is closed because today is no trading day, or
\* because it is at or after the close of a trading day, the countdown is the
\* number of minutes that will pass until the exchange's clock next shows a
\* trading day's open time.
C26_CountdownToNextOpen ==
  (last = "calculateTimeInfo") =>
    LET config == fnArgs.config
        nowMinutes == fnArgs.minuteOfDay
        openMinutes == config.openHour * 60 + config.openMinute
        closeMinutes == config.closeHour * 60 + config.closeMinute
        tradingDay == fnArgs.exchangeDayOfWeek \in config.tradingDays
        daysAhead == CHOOSE k \in 1..7 :
                       /\ (fnArgs.exchangeDayOfWeek + k) % 7 \in config.tradingDays
                       /\ \A j \in 1..k - 1 :
                             (fnArgs.exchangeDayOfWeek + j) % 7 \notin config.tradingDays
        minutesAhead == daysAhead * 24 * 60 + openMinutes - nowMinutes
                          - fnArgs.offsetChange
    IN  (~tradingDay \/ nowMinutes >= closeMinutes)
          => /\ fnResult.countdown = FormatCountdown(minutesAhead)
             /\ fnResult.countdownLabel = "until market opens"

\* C27: calculateSMA returns as many elements as there are prices; the
\* elements before position period are undefined and every later one is the
\* mean of the period prices ending there.
C27_SmaIsWindowMean ==
  (last = "calculateSMA") =>
    LET S == fnArgs.prices
        p == fnArgs.period
    IN  /\ Len(fnResult) = Len(S)
        /\ \A i \in 1..Len(S) :
              IF i < p THEN fnResult[i] = Undefined
              ELSE /\ fnResult[i] # Undefined
                   /\ FracEq(fnResult[i], Frac(SumOf(SubSeq(S, i - p + 1, i)), p))

\* C27 witness: SMA([1,2,3,3], 3) = [_, _, 2, 8/3].
C27_Witness ==
  /\ last = "calculateSMA"
  /\ fnArgs.prices = <<1, 2, 3, 3>>
  /\ fnArgs.period = 3
  /\ fnResult[2] = Undefined
  /\ FracEq(fnResult[3], Frac(2, 1))
  /\ FracEq(fnResult[4], Frac(8, 3))

\* C28: calculateEMA leaves the positions before period undefined, seeds
\* position period with the simple average of the first period prices, and
\* from there on every element is defined and equals
\* price * k + previous * (1 - k) with k = 2 / (period + 1).
C28_EmaRecurrence ==
  (last = "calculateEMA") =>
    LET S == fnArgs.prices
        p == fnArgs.period
    IN  /\ Len(fnResult) = Len(S)
        /\ \A i \in 1..Len(S) :
              IF i < p THEN fnResult[i] = Undefined
              ELSE IF i = p
              THEN /\ fnResult[i] # Undefined
                   /\ FracEq(fnResult[i], Frac(SumOf(SubSeq(S, 1, p)), p))
                   /\ FracEq(fnResult[i], CalculateSMA(S, p)[i])
              ELSE /\ fnResult[i] # Undefined
                   /\ fnResult[i - 1] # Undefined
                   /\ FracEq(fnResult[i],
                             Frac(2 * S[i] * fnResult[i - 1][2]
                                    + (p - 1) * fnResult[i - 1][1],
                                  (p + 1) * fnResult[i - 1][2]))

\* C28 witness: EMA([1,1,3,3], 2) = [_, 1, 7/3, 25/9], k = 2/3.
C28_Witness ==
  /\ last = "calculateEMA"
  /\ fnArgs.prices = <<1, 1, 3, 3>>
  /\ fnArgs.period = 2
  /\ fnResult[1] = Undefined
  /\ FracEq(fnResult[2], Frac(1, 1))
  /\ FracEq(fnResult[3], Frac(7, 3))
  /\ FracEq(fnResult[4], Frac(25, 9))

\* C29: calculateBollingerBands defines upper and lower exactly where the
\* middle band is defined, from position period on; the middle band is the
\* simple moving average; upper - middle and middle - lower are both the
\* multiplier times the population standard deviation (divide by N) of the
\* period prices ending there.
C29_BandsAroundSma ==
  (last = "calculateBollingerBands") =>
    LET S == fnArgs.prices
        p == fnArgs.period
        m == fnArgs.standardDeviations
        sumSq(i) == SumOf([k \in 1..p |-> S[i - p + k] * S[i - p + k]])
        sum(i) == SumOf(SubSeq(S, i - p + 1, i))
        populationVariance(i) == Frac(p * sumSq(i) - sum(i) * sum(i), p * p)
    IN  /\ fnResult.middle = CalculateSMA(S, p)
        /\ Len(fnResult.upper) = Len(S)
        /\ Len(fnResult.lower) = Len(S)
        /\ \A i \in 1..Len(S) :
              /\ (fnResult.upper[i] # Undefined) <=> (fnResult.middle[i] # Undefined)
              /\ (fnResult.lower[i] # Undefined) <=> (fnResult.middle[i] # Undefined)
              /\ (fnResult.middle[i] # Undefined) <=> (i >= p)
              /\ (i >= p) =>
                    /\ fnResult.upper[i].middle = fnResult.middle[i]
                    /\ fnResult.lower[i].middle = fnResult.middle[i]
                    /\ fnResult.upper[i].factor = m
                    /\ fnResult.lower[i].factor = 0 - m
                    /\ FracEq(fnResult.upper[i].variance, populationVariance(i))
                    /\ FracEq(fnResult.lower[i].variance, populationVariance(i))

\* C29 witness: prices [1,3,1,3], period 2, multiplier 2: every window has
\* mean 2 and population variance 1, so the bands are 2 + 2 and 2 - 2.
C29_Witness ==
  /\ last = "calculateBollingerBands"
  /\ fnArgs.prices = <<1, 3, 1, 3>>
  /\ fnArgs.period = 2
  /\ fnArgs.standardDeviations = 2
  /\ fnResult.upper[1] = Undefined
  /\ FracEq(fnResult.middle[4], Frac(2, 1))
  /\ FracEq(fnResult.upper[4].variance, Frac(1, 1))
  /\ fnResult.upper[4].factor = 2
  /\ fnResult.lower[4].factor = 0 - 2

\* C30: whatever the order of message.updated, message.part.updated and
\* session.idle events, and with session.idle handlers overlapping, no message
\* id is appended to the log file by more than one appendFile, and so no id is
\* in the file twice.
C30_EachMessageLoggedOnce ==
  /\ \A i, j \in 1..Len(appendCalls) : appendCalls[i] = appendCalls[j] => i = j
  /\ \A i, j \in 1..Len(logFile) : logFile[i] = logFile[j] => i = j

\* C30 witness: a message was appended, a part update then brought it back
\* into messageData with text, and a session.idle handler that overlaps
\* another has passed over that entry without logging it again.
C30_Witness ==
  \E h, g \in 1..MaxIdleHandlers, i \in 1..Len(messageData) :
    /\ h # g
    /\ idleHandlers[h].phase # "none"
    /\ idleHandlers[g].phase # "none"
    /\ idleHandlers[h].pos > i
    /\ idleHandlers[h].id # messageData[i].id
    /\ messageData[i].live
    /\ SortedParts(messageData[i].parts) # <<>>
    /\ \E k \in 1..Len(appendCalls) : appendCalls[k] = messageData[i].id

\* C31: from one minute to the next the calculator's state stays or moves
\* along Closed-NonTradingDay -> Closed-BeforeOpen -> Open -> Closed-AfterClose
\* -> (Closed-NonTradingDay or Closed-BeforeOpen); Open is entered only from
\* Closed-BeforeOpen and left only to Closed-AfterClose; and the market opens
\* or closes exactly when the countdown reported a minute before was one
\* minute, the countdown going down by one otherwise.
C31_StateCycleFollowsCountdown ==
  [][(last' = "tick") =>
       LET before == CalculatorState(fnArgs.config, fnArgs.exchangeDayOfWeek,
                                     fnArgs.minuteOfDay, fnArgs.h24)
           after == CalculatorState(fnArgs'.config, fnArgs'.exchangeDayOfWeek,
                                    fnArgs'.minuteOfDay, fnArgs'.h24)
           minutes(c) == IF Len(c) = 3 THEN (c[1] * 24 + c[2]) * 60 + c[3]
                         ELSE c[1] * 60 + c[2]
           left == minutes(fnResult.countdown)
           leftAfter == minutes(fnResult'.countdown)
       IN  /\ \/ after = before
              \/ <<before, after>> \in
                    {<<"Closed-NonTradingDay", "Closed-BeforeOpen">>,
                     <<"Closed-BeforeOpen", "Open">>,
                     <<"Open", "Closed-AfterClose">>,
                     <<"Closed-AfterClose", "Closed-NonTradingDay">>,
                     <<"Closed-AfterClose", "Closed-BeforeOpen">>}
           /\ left >= 1
           /\ (fnResult'.isOpen # fnResult.isOpen) <=> (left = 1)
           /\ (left > 1) => (leftAfter = left - 1)]_vars

\* C32: once a component is unmounted none of its countdown timers is live,
\* and no retry and no refresh callback runs any more, also when the unmount
\* comes between the tick that takes the countdown to 0 and the deferred
\* callback of that tick.
C32_TeardownIsFinal ==
  /\ [](~rlMounted => rlTimers = {})
  /\ [](~arMounted => arTimers = {})
  /\ [][/\ ~rlMounted => rlFired' <= rlFired
        /\ ~arMounted => arFired' <= arFired]_vars

\* C33: while the rate-limit countdown of the page is running, its interval
\* live, and is not reset by a manual refresh in that step, no request is
\* started by handleRefresh: no details and no lightweight refresh request is
\* put in flight, and no history request for a new refreshKey.
C33_NoRequestWhileCountingDown ==
  [][(isRateLimited /\ rlTimers # {} /\ isRateLimited') =>
       /\ detailsInFlight' <= detailsInFlight
       /\ refreshInFlight' <= refreshInFlight
       /\ refreshKeyBumped => historyInFlight' <= historyInFlight]_vars

\* C34: what the history catch starts depends on the class of the error
\* alone: a RateLimitError starts the rate-limit countdown, a
\* ServerTimeoutError or a plain Error gets the fixed-delay retry, and an
\* EmptyHistoryError is handled as empty history, whatever the message says.
C34_PolicyFollowsErrorClass ==
  (last = "historyCatch") =>
    /\ (fnArgs.err.cls = "RateLimitError") => (fnResult = "startRetryCountdown")
    /\ (fnArgs.err.cls \in {"ServerTimeoutError", "Error"})
          => (fnResult = "setRetryCountdown")
    /\ (fnArgs.err.cls = "EmptyHistoryError") => (fnResult = "emptyHistory")

\* C35: when the responses of two refresh requests have both been merged,
\* the stored series is the same whichever arrived first:
\* merge(merge(A, B), C) = merge(merge(A, C), B).
C35_MergeOrderIrrelevant ==
  (last \in {"B", "C"} /\ fnArgs.pending = {}) =>
    /\ historyData = RefreshCandles(RefreshCandles(fnArgs.series, fnArgs.B), fnArgs.C)
    /\ historyData = RefreshCandles(RefreshCandles(fnArgs.series, fnArgs.C), fnArgs.B)

\* C36: a response never brings a candle of a superseded interval into the
\* stored series: when the series holds only candles returned for the
\* selected candle interval, it still does after any history or
\* lightweight-refresh response has been handled, however late it arrives.
C36_SeriesOfSelectedInterval ==
  [][(/\ candleInterval' = candleInterval
      /\ \A k \in 1..Len(historyData) : historyData[k].interval = candleInterval) =>
        \A i \in 1..Len(historyData') : historyData'[i].interval = candleInterval]_vars

\* C37: the commit that follows a manual refresh starts exactly one history
\* request, with isManualRefresh (the cache bypass) true, and exactly one
\* details request; and a history request is started only by a commit that
\* follows an increment of refreshKey, never by the completion of an earlier
\* history request.
C37_ManualRefreshStartsOneHistory ==
  /\ [][(isManualRefresh /\ ~cmManual /\ cmManual') =>
          /\ historyInFlight' = historyInFlight + 1
          /\ detailsInFlight' = detailsInFlight + 1]_vars
  /\ [][(historyInFlight' > historyInFlight) => refreshKeyBumped]_vars

\* C38: for wait times that are not negative, the retry controller's
\* secondsRemaining is never below 0, and isRateLimited holds exactly when
\* secondsRemaining is above 0: an idle controller shows 0 seconds.
C38_RateLimitedIffSecondsRemain ==
  /\ rlSecondsRemaining >= 0
  /\ isRateLimited <=> rlSecondsRemaining > 0

\* A countdown was cancelled or reset part-way, after at least one tick.
C38_Witness ==
  /\ last \in {"cancel", "reset"}
  /\ rlTicks > 0
  /\ rlWait # <<>> /\ rlWait[1] > 10
  /\ ~isRateLimited
  /\ rlSecondsRemaining = 0

\* C39: for every non-empty set of trading days and every current weekday,
\* the forward scan ends, never counts beyond 7 days, and ends on a trading
\* day that lies between 1 and 7 days ahead of the current weekday.
C39_ScanFindsDayWithinWeek ==
  /\ [](last \in {"scan", "found"} => fnResult.daysUntilOpen \in 1..7)
  /\ [](last = "found" =>
          /\ (fnArgs.exchangeDayOfWeek + fnResult.daysUntilOpen) % 7 \in fnArgs.tradingDays
          /\ fnResult.daysUntilOpen =
               DaysUntilOpen(fnArgs.tradingDays, (fnArgs.exchangeDayOfWeek + 1) % 7, 1))
  /\ <>(last = "found")

\* The only trading day is the current weekday: the scan went a whole week.
C39_Witness ==
  /\ last = "found"
  /\ fnArgs.tradingDays = {fnArgs.exchangeDayOfWeek}
  /\ fnResult.daysUntilOpen = 7

\* C40: the role label written for a message whose message.updated event
\* arrived before the session.idle that logged it is the label of the role
\* that event reported, whatever the order of the message's events.
C40_LabelIsReportedRole ==
  \A k \in 1..Len(logFile) :
    logFile[k].updated => logFile[k].roleLabel = RoleLabel(fnArgs[logFile[k].id])

====
